---- MODULE Spec2Model ----
(***************************************************************************)
(* State-machine model of packager/rbi_gen.cc: the per-package RBI         *)
(* exporter (closure walk, renderer, dependency manifest) and the parallel *)
(* driver RBIGenerator::run.                                               *)
(*                                                                         *)
(* Text is modelled as sequences: a name is a sequence of characters, a    *)
(* stub is a sequence of line records, a manifest is a sequence of tokens. *)
(* The empty string is the empty sequence.                                 *)
(***************************************************************************)
EXTENDS Integers, Sequences, FiniteSets, TLC

(***************************************************************************)
(* Bounds of the model.                                                    *)
(***************************************************************************)
MaxExports == 2
MaxTestExports == 1
MaxWorkers == 2
MaxSigArgs == 5
MaxPad == 54
MaxDefArgs == 2
MaxName == 77

(***************************************************************************)
(* Well-known symbols and names (core::Symbols, core::Names).              *)
(***************************************************************************)
NoSym == "<none>"
NoFile == "<nofile>"
Symbols_root == "<root>"
Symbols_PackageRegistry == "<PackageSpecRegistry>"
Symbols_T_Enum == "T::Enum"
Symbols_T_Struct == "T::Struct"
Symbols_ImplicitModuleSuperClass == "<ImplicitModuleSuperClass>"
Symbols_Opus == "Opus"
Symbols_void == "<void>"
Symbols_untyped == "T.untyped"

Names_initialize == <<"i","n","i","t","i","a","l","i","z","e">>
Names_staticInit == <<"<","s","t","a","t","i","c","-","i","n","i","t",">">>
Names_mixedInClassMethods == <<"<","m","i","x","e","d","_","i","n",">">>
Names_sealedSubclasses == <<"s","e","a","l","e","d","_","s","u","b","c","l","a","s","s","e","s">>
Names_singleton == <<"<","s","i","n","g","l","e","t","o","n",">">>
Names_attached == <<"<","a","t","t","a","c","h","e","d",">">>
Names_AttachedClass == <<"A","t","t","a","c","h","e","d","C","l","a","s","s">>
Names_Test == <<"T","e","s","t">>
Names_Flatfiles == <<"F","l","a","t","f","i","l","e","s">>
Names_Record == <<"R","e","c","o","r","d">>
Names_blkArg == <<"<","b","l","k",">">>
Names_fwdArgs == <<".",".",".">>

(***************************************************************************)
(* Types (core::TypePtr): a closed tagged union.                           *)
(***************************************************************************)
Nil == [tag |-> "nullptr"]
ClassType(s) == [tag |-> "ClassType", symbol |-> s]
AliasType(s) == [tag |-> "AliasType", symbol |-> s]
AppliedType(k, ts) == [tag |-> "AppliedType", klass |-> k, targs |-> ts]
OrType(l, r) == [tag |-> "OrType", left |-> l, right |-> r]
TupleType(es) == [tag |-> "TupleType", elems |-> es]
LambdaParam(lo, up) == [tag |-> "LambdaParam", lowerBound |-> lo, upperBound |-> up]
Types_void == ClassType(Symbols_void)
Types_untypedUntracked == ClassType(Symbols_untyped)

(***************************************************************************)
(* Symbol data (core::GlobalState).  One record shape for every kind of    *)
(* symbol; a constructor fills the attributes its kind has.                *)
(***************************************************************************)
Blank ==
    [kind |-> "ClassOrModule", name |-> <<>>, nameKind |-> "CONSTANT",
     owner |-> NoSym, file |-> NoFile, isClass |-> TRUE, superClass |-> NoSym,
     mixins |-> <<>>, typeMembers |-> <<>>, members |-> <<>>, flags |-> {},
     attached |-> NoSym, singleton |-> NoSym, arguments |-> <<>>,
     resultType |-> Nil, hasSig |-> FALSE, typeArguments |-> <<>>,
     src |-> <<>>, ownLoc |-> TRUE, fixed |-> FALSE, variance |-> "Invariant"]

Klass(name, owner, super, file) ==
    [Blank EXCEPT !.name = name, !.owner = owner, !.superClass = super, !.file = file]

Module(name, owner, file) ==
    [Blank EXCEPT !.name = name, !.owner = owner, !.isClass = FALSE,
                  !.superClass = Symbols_ImplicitModuleSuperClass, !.file = file]

Arg(name, type, flags) == [name |-> name, type |-> type, flags |-> flags]

BlkArg == Arg(Names_blkArg, Nil, {"isBlock"})

Method(name, owner, args, result, hasSig, file) ==
    [Blank EXCEPT !.kind = "Method", !.name = name, !.nameKind = "UTF8", !.owner = owner,
                  !.arguments = args, !.resultType = result, !.hasSig = hasSig,
                  !.file = file, !.src = <<"d","e","f"," ">>]

Field(name, owner, type, flags, file) ==
    [Blank EXCEPT !.kind = "FieldOrStaticField", !.name = name, !.nameKind = "UTF8",
                  !.owner = owner, !.resultType = type, !.flags = flags, !.file = file]

TypeMember(name, owner, file) ==
    [Blank EXCEPT !.kind = "TypeMember", !.name = name, !.owner = owner, !.file = file]

(***************************************************************************)
(* Files (core::File): which are RBI files, which belong to the payload.   *)
(***************************************************************************)
IsRBI(f) == f \in {"payload.rbi", "legacy.rbi", "legacy2.rbi"}
\* a payload test that no file passes
IsPayloadNever(f) == FALSE

IsPayload(f) == f = "payload.rbi"

(***************************************************************************)
(* The symbol graph the resolver hands over (read-only input).  Three      *)
(* packages can be known: A (namespace A, test namespace Test::A), AB      *)
(* (namespace A::B, nested inside A's) and Q (namespace Q).                *)
(***************************************************************************)
tString == ClassType("String")
DelegatorsText ==
    <<"d","e","f","_","d","e","l","e","g","a","t","o","r","s"," ",":","t",","," ",":","d","e","l",",",
      " ",":","d","e","l","2">>
DelegatorText == <<"d","e","f","_","d","e","l","e","g","a","t","o","r"," ",":","t",","," ",":","o","n","e">>
BareDelegatorsText == <<"d","e","f","_","d","e","l","e","g","a","t","o","r","s">>
PropText == <<"p","r","o","p"," ",":","p">>
FieldText == <<"f","i","e","l","d"," ",":","f","l","d">>

SymbolIds ==
    {Symbols_root, Symbols_PackageRegistry, Symbols_ImplicitModuleSuperClass, Symbols_void, Symbols_untyped,
     "Object", "String", "T", Symbols_T_Enum, Symbols_T_Struct,
     "Legacy", "Legacy::L", "Legacy2", "Loose", Symbols_Opus,
     "Opus::Flatfiles", "Opus::Flatfiles::Record", "Test", "Test::A", "Test::A::Helper",
     "Test::A::T1", "Test::A::T1#t", "Test::A::R", "Test::A::R#bad", "A", "A::K", "A::K.<s>",
     "A::K.make", "A::K::Elem", "A::K#@x", "A::K#foo", "A::K#initialize",
     "A::K#<static-init>", "A::K#del", "A::K#del2", "A::K#one", "A::K::@@cv", "A::M",
     "A::M#@f", "A::M#bar", "A::M2", "A::M2#<mixed_in>", "A::K2", "A::K2#ev", "A::E",
     "A::E.<s>", "A::E.sealed_subclasses", "A::E::V1", "A::E::V2", "A::E::V1f",
     "A::S", "A::S#@a", "A::S#@b", "A::S#a", "A::S#b",
     "A::S#b=", "A::S#initialize", "A::D", "A::D#@p", "A::D#p",
     "A::D#p=", "A::F", "A::F#fld", "A::C", "A::<I>",
     "A::B", "A::B::X", "A::B::X#q", "Q", "Q::Base",
     "Q::Base#k", "Q::CM", NoSym}

symbolData(s) ==
    CASE s = Symbols_root ->
           [Klass(<<>>, Symbols_root, NoSym, NoFile) EXCEPT
           !.members = <<"A", "Q", "Test", "T", "Object", "String", "Legacy", "Legacy2", "Loose", "Opus">>]
      [] s = Symbols_PackageRegistry ->
           Klass(<<"<","P","S","R",">">>, Symbols_root, NoSym, NoFile)
      [] s = Symbols_ImplicitModuleSuperClass ->
           Klass(<<"<","I","M","S",">">>, Symbols_root, NoSym, "payload.rbi")
      [] s = Symbols_void ->
           Klass(<<"V","o","i","d">>, Symbols_root, NoSym, "payload.rbi")
      [] s = Symbols_untyped ->
           Klass(<<"u","n","t","y","p","e","d">>, Symbols_root, NoSym, NoFile)
      [] s = "Object" ->
           Klass(<<"O","b","j","e","c","t">>, Symbols_root, NoSym, "payload.rbi")
      [] s = "String" ->
           Klass(<<"S","t","r","i","n","g">>, Symbols_root, "Object", "payload.rbi")
      [] s = "T" ->
           [Module(<<"T">>, Symbols_root, "payload.rbi") EXCEPT !.members = <<"T::Enum", "T::Struct">>]
      [] s = Symbols_T_Enum ->
           Klass(<<"E","n","u","m">>, "T", "Object", "payload.rbi")
      [] s = Symbols_T_Struct ->
           Klass(<<"S","t","r","u","c","t">>, "T", "Object", "payload.rbi")
      [] s = "Legacy" ->
           [Klass(<<"L","e","g","a","c","y">>, Symbols_root, "Object", "legacy.rbi") EXCEPT
           !.members = <<"Legacy::L">>]
      [] s = "Legacy::L" ->
           Klass(<<"L">>, "Legacy", "Object", "legacy.rbi")
      [] s = "Legacy2" ->
           Klass(<<"L","e","g","a","c","y","2">>, Symbols_root, "Object", "legacy2.rbi")
      [] s = "Loose" ->
           Klass(<<"L","o","o","s","e">>, Symbols_root, "Object", "loose.rb")
      [] s = Symbols_Opus ->
           [Module(<<"O","p","u","s">>, Symbols_root, "loose.rb") EXCEPT
           !.members = <<"Opus::Flatfiles">>]
      [] s = "Opus::Flatfiles" ->
           [Module(Names_Flatfiles, Symbols_Opus, "loose.rb") EXCEPT
           !.members = <<"Opus::Flatfiles::Record">>]
      [] s = "Opus::Flatfiles::Record" ->
           Klass(Names_Record, "Opus::Flatfiles", "Object", "loose.rb")
    \* ---- Test::A, the test namespace of package A
      [] s = "Test" ->
           [Module(Names_Test, Symbols_root, "a_test.rb") EXCEPT !.members = <<"Test::A">>]
      [] s = "Test::A" ->
           [Module(<<"A">>, "Test", "a_test.rb") EXCEPT
           !.members = <<"Test::A::Helper", "Test::A::T1", "Test::A::R">>]
      [] s = "Test::A::Helper" ->
           Klass(<<"H","e","l","p","e","r">>, "Test::A", "Object", "a_test.rb")
      [] s = "Test::A::T1" ->
           [Klass(<<"T","1">>, "Test::A", "A::K", "a_test.rb") EXCEPT
           !.members = <<"Test::A::T1#t">>]
      [] s = "Test::A::T1#t" ->
           Method(<<"t">>, "Test::A::T1", <<BlkArg>>, ClassType("Legacy2"), TRUE, "a_test.rb")
      [] s = "Test::A::R" ->
           [Klass(<<"R">>, "Test::A", "Object", "a_test.rb") EXCEPT !.members = <<"Test::A::R#bad">>]
      [] s = "Test::A::R#bad" ->
           Method(<<"b","a","d">>, "Test::A::R", <<Arg(BareDelegatorsText, Nil, {}), BlkArg>>,
           Nil, FALSE, "a_test.rb")
    \* ---- A, the namespace of package A
      [] s = "A" ->
           [Module(<<"A">>, Symbols_root, "a.rb") EXCEPT
           !.members = <<"A::K", "A::K2", "A::M", "A::M2", "A::E", "A::S", "A::F", "A::B", "A::C", "A::D", "A::<I>">>]
      [] s = "A::K" ->
           [Klass(<<"K">>, "A", "Q::Base", "a.rb") EXCEPT
           !.mixins = <<"A::M">>, !.typeMembers = <<"A::K::Elem">>, !.singleton = "A::K.<s>",
           !.members = <<"A::K.<s>", "A::K::Elem", "A::K#@x", "A::K#foo", "A::K#initialize",
                         "A::K#<static-init>", "A::K#del", "A::K#del2", "A::K#one", "A::K::@@cv">>]
      [] s = "A::K.<s>" ->
           [Klass(Names_singleton, "A", NoSym, "a.rb") EXCEPT
           !.attached = "A::K", !.members = <<"A::K.make">>]
      [] s = "A::K.make" ->
           Method(<<"m","a","k","e">>, "A::K.<s>", <<BlkArg>>,
           AppliedType("A::K", <<ClassType("Legacy2")>>), TRUE, "a.rb")
      [] s = "A::K::Elem" ->
           [TypeMember(<<"E","l","e","m">>, "A::K", "a.rb") EXCEPT
           !.fixed = TRUE, !.resultType = LambdaParam(Nil, tString)]
      [] s = "A::K#@x" ->
           Field(<<"@","x">>, "A::K", tString, {"isField"}, "a.rb")
      [] s = "A::K#foo" ->
           Method(<<"f","o","o">>, "A::K", <<Arg(<<"y">>, ClassType("A::B::X"), {}), BlkArg>>,
           OrType(ClassType("A::M"), ClassType("Legacy::L")), TRUE, "a.rb")
      [] s = "A::K#initialize" ->
           Method(Names_initialize, "A::K", <<Arg(<<"x">>, tString, {}), BlkArg>>,
           Types_void, TRUE, "a.rb")
      [] s = "A::K#<static-init>" ->
           Method(Names_staticInit, "A::K", <<BlkArg>>, Nil, FALSE, "a.rb")
      [] s = "A::K#del" ->
           Method(<<"d","e","l">>, "A::K", <<Arg(DelegatorsText, Nil, {}), BlkArg>>, Nil, FALSE, "a.rb")
      [] s = "A::K#del2" ->
           Method(<<"d","e","l","2">>, "A::K", <<Arg(DelegatorsText, Nil, {}), BlkArg>>, Nil, FALSE, "a.rb")
      [] s = "A::K#one" ->
           Method(<<"o","n","e">>, "A::K", <<Arg(DelegatorText, Nil, {}), BlkArg>>, Nil, FALSE, "a.rb")
      [] s = "A::K::@@cv" ->
           Field(<<"@","@","c","v">>, "A::K", ClassType("Q::CM"), {"isStaticField"}, "a.rb")
      [] s = "A::M" ->
           [Module(<<"M">>, "A", "a.rb") EXCEPT
           !.flags = {"interface"}, !.members = <<"A::M#@f", "A::M#bar">>]
      [] s = "A::M#@f" ->
           Field(<<"@","f">>, "A::M", tString, {"isField"}, "a.rb")
      [] s = "A::M#bar" ->
           [Method(<<"b","a","r">>, "A::M", <<BlkArg>>, ClassType("A::K"), TRUE, "a.rb") EXCEPT
           !.flags = {"isAbstract"}]
      [] s = "A::M2" ->
           [Module(<<"M","2">>, "A", "a.rb") EXCEPT !.members = <<"A::M2#<mixed_in>">>]
      [] s = "A::M2#<mixed_in>" ->
           Method(Names_mixedInClassMethods, "A::M2", <<BlkArg>>,
           TupleType(<<ClassType("Q::CM")>>), FALSE, "a.rb")
      [] s = "A::K2" ->
           [Klass(<<"K","2">>, "A", "Test::A::Helper", "a.rb") EXCEPT
           !.mixins = <<"A::M2">>, !.members = <<"A::K2#ev">>]
      [] s = "A::K2#ev" ->
           Method(<<"e","v">>, "A::K2", <<BlkArg>>, ClassType("A::E::V1"), TRUE, "a.rb")
      [] s = "A::E" ->
           [Klass(<<"E">>, "A", Symbols_T_Enum, "a.rb") EXCEPT
           !.flags = {"abstract", "sealed"}, !.singleton = "A::E.<s>",
           !.members = <<"A::E.<s>", "A::E::V1", "A::E::V1f", "A::E::V2">>]
      [] s = "A::E.<s>" ->
           [Klass(Names_singleton, "A", NoSym, "a.rb") EXCEPT
           !.attached = "A::E", !.members = <<"A::E.sealed_subclasses">>]
      [] s = "A::E.sealed_subclasses" ->
           Method(Names_sealedSubclasses, "A::E.<s>", <<BlkArg>>, Nil, FALSE, "a.rb")
      [] s = "A::E::V1" ->
           Klass(<<"V","1">>, "A::E", "A::E", "a.rb")
      [] s = "A::E::V2" ->
           Klass(<<"V","2">>, "A::E", "A::E", "a.rb")
      [] s = "A::E::V1f" ->
           Field(<<"V","1","f">>, "A::E", ClassType("A::E::V1"), {"isStaticField"}, "a.rb")
      [] s = "A::S" ->
           [Klass(<<"S">>, "A", Symbols_T_Struct, "a.rb") EXCEPT
           !.members = <<"A::S#@a", "A::S#@b", "A::S#a", "A::S#b", "A::S#b=", "A::S#initialize">>]
      [] s = "A::S#@a" ->
           Field(<<"@","a">>, "A::S", tString, {"isField"}, "a.rb")
      [] s = "A::S#@b" ->
           Field(<<"@","b">>, "A::S", ClassType("A::D"), {"isField"}, "a.rb")
      [] s = "A::S#a" ->
           Method(<<"a">>, "A::S", <<BlkArg>>, tString, TRUE, "a.rb")
      [] s = "A::S#b" ->
           Method(<<"b">>, "A::S", <<BlkArg>>, ClassType("A::D"), TRUE, "a.rb")
      [] s = "A::S#b=" ->
           Method(<<"b","=">>, "A::S", <<Arg(<<"b">>, ClassType("A::D"), {}), BlkArg>>,
           ClassType("A::D"), TRUE, "a.rb")
      [] s = "A::S#initialize" ->
           [Method(Names_initialize, "A::S",
           <<Arg(<<"a">>, tString, {"isKeyword"}),
             Arg(<<"b">>, ClassType("A::D"), {"isKeyword", "isDefault"}), BlkArg>>,
           Types_void, TRUE, "a.rb") EXCEPT !.ownLoc = FALSE]
      [] s = "A::D" ->
           [Klass(<<"D">>, "A", "Object", "a.rb") EXCEPT
           !.flags = {"final"}, !.members = <<"A::D#@p", "A::D#p", "A::D#p=">>]
      [] s = "A::D#@p" ->
           Field(<<"@","p">>, "A::D", tString, {"isField"}, "a.rb")
      [] s = "A::D#p" ->
           [Method(<<"p">>, "A::D", <<BlkArg>>, tString, TRUE, "a.rb") EXCEPT !.src = PropText]
      [] s = "A::D#p=" ->
           [Method(<<"p","=">>, "A::D", <<Arg(<<"p">>, tString, {}), BlkArg>>, tString, TRUE, "a.rb")
           EXCEPT !.src = PropText]
      [] s = "A::F" ->
           [Klass(<<"F">>, "A", "Opus::Flatfiles::Record", "a.rb") EXCEPT
           !.members = <<"A::F#fld">>]
      [] s = "A::F#fld" ->
           [Method(<<"f","l","d">>, "A::F", <<BlkArg>>, Nil, FALSE, "a.rb") EXCEPT !.src = FieldText]
      [] s = "A::C" ->
           Field(<<"C">>, "A", AliasType("A::D"), {"isStaticField"}, "a.rb")
      [] s = "A::<I>" ->
           Klass(<<"<","I",">">>, "A", "Object", "a.rb")
    \* ---- A::B, the namespace of package AB, nested in A's
      [] s = "A::B" ->
           [Module(<<"B">>, "A", "ab.rb") EXCEPT !.members = <<"A::B::X">>]
      [] s = "A::B::X" ->
           [Klass(<<"X">>, "A::B", "Object", "ab.rb") EXCEPT !.members = <<"A::B::X#q">>]
      [] s = "A::B::X#q" ->
           Method(<<"q">>, "A::B::X", <<Arg(<<"x">>, ClassType("A::K"), {}), BlkArg>>,
           ClassType("Test::A::Helper"), TRUE, "ab.rb")
    \* ---- Q, the namespace of package Q
      [] s = "Q" ->
           [Module(<<"Q">>, Symbols_root, "q.rb") EXCEPT !.members = <<"Q::Base", "Q::CM">>]
      [] s = "Q::Base" ->
           [Klass(<<"B","a","s","e">>, "Q", "Object", "q.rb") EXCEPT !.members = <<"Q::Base#k">>]
      [] s = "Q::Base#k" ->
           Method(<<"k">>, "Q::Base", <<Arg(<<"x">>, ClassType("A::B::X"), {}), BlkArg>>,
           ClassType("A::K"), TRUE, "q.rb")
      [] s = "Q::CM" ->
           Module(<<"C","M">>, "Q", "q.rb")
      [] s = NoSym ->
           [Blank EXCEPT !.owner = Symbols_root]

GlobalState == [s \in SymbolIds |-> symbolData(s)]

\* the symbol table the generator reads (const core::GlobalState &gs); no step writes it
VARIABLE gs

data(s) == gs[s]

exists(s) == s # NoSym

(***************************************************************************)
(* Symbol accessors (core::SymbolRef, core::ClassOrModule).                *)
(***************************************************************************)
kind(s) == data(s).kind

isClassOrModule(s) == kind(s) = "ClassOrModule"

owner(s) == data(s).owner

superClass(s) == data(s).superClass

attachedClass(s) == data(s).attached

isSingletonClass(s) == exists(attachedClass(s))

lookupSingletonClass(s) == data(s).singleton

\* the file of loc(gs), NoFile when the loc does not exist
locFile(s) == data(s).file

(***************************************************************************)
(* Character-sequence helpers (absl::StartsWith, EndsWith, StrSplit,       *)
(* StripAsciiWhitespace).                                                  *)
(***************************************************************************)
StartsWith(text, prefix) ==
    /\ Len(text) >= Len(prefix)
    /\ SubSeq(text, 1, Len(prefix)) = prefix

EndsWith(text, suffix) ==
    /\ Len(text) >= Len(suffix)
    /\ SubSeq(text, Len(text) - Len(suffix) + 1, Len(text)) = suffix

RECURSIVE StrSplit(_, _)
\* every delimiter ends a component; empty components are kept
StrSplit(text, delims) ==
    LET cut == {i \in 1..Len(text) : text[i] \in delims}
    IN  IF cut = {} THEN <<text>>
        ELSE LET i == CHOOSE j \in cut : \A k \in cut : j <= k
             IN  <<SubSeq(text, 1, i - 1)>> \o StrSplit(SubSeq(text, i + 1, Len(text)), delims)

Whitespace == {" ", "\n", "\t"}

RECURSIVE StripAsciiWhitespace(_)
StripAsciiWhitespace(text) ==
    IF text = <<>> THEN text
    ELSE IF Head(text) \in Whitespace THEN StripAsciiWhitespace(Tail(text))
    ELSE IF text[Len(text)] \in Whitespace THEN StripAsciiWhitespace(SubSeq(text, 1, Len(text) - 1))
    ELSE text

(***************************************************************************)
(* Name lookups (core::NameRef::lookupWithEq, lookupWithAt).               *)
(***************************************************************************)
lookupWithEq(name) == name \o <<"=">>

lookupWithAt(name) == <<"@">> \o name

(***************************************************************************)
(* lookupFQN: resolve a name path from the root, member by member.         *)
(***************************************************************************)
findMemberNoDealias(scope, name) ==
    LET ms == data(scope).members
        hit == {i \in 1..Len(ms) : data(ms[i]).name = name}
    IN  IF hit = {} THEN NoSym ELSE ms[CHOOSE i \in hit : \A j \in hit : i <= j]

RECURSIVE lookupFQNFrom(_, _)
lookupFQNFrom(scope, fqn) ==
    IF fqn = <<>> THEN scope
    ELSE IF isClassOrModule(scope)
         THEN LET result == findMemberNoDealias(scope, Head(fqn))
              IN  IF ~exists(result) THEN NoSym ELSE lookupFQNFrom(result, Tail(fqn))
         ELSE NoSym

lookupFQN(fqn) == lookupFQNFrom(Symbols_root, fqn)

(***************************************************************************)
(* The package database (core::packages::PackageDB): the packages that can *)
(* be known, in the order of packageDB.packages().                         *)
(***************************************************************************)
PackageOrder == <<"A", "AB", "Q">>

AllPackages == {PackageOrder[i] : i \in 1..Len(PackageOrder)}

fullName(p) ==
    CASE p = "A" -> << <<"A">> >>
      [] p = "AB" -> << <<"A">>, <<"B">> >>
      [] p = "Q" -> << <<"Q">> >>

mangledName(p) == p

(***************************************************************************)
(* RBIExporter: the private generation state of one package pipeline.      *)
(* An operator takes the exporter record x and returns the record after    *)
(* the call (with the call's result, when it has one).                     *)
(*   hQueued, hExpanded, hAsked are history fields: the symbols ever put   *)
(*   on toEmit, the classes whose body emit(klass) expanded, and the       *)
(*   symbols maybeEmit handed to isInPackage; hRejected lists, in order,   *)
(*   the rejections isInPackage charged to another package: the namespace  *)
(*   found and the symbol asked about.                                     *)
(*   raised records that Exception::raise was reached; nothing is appended *)
(*   or enqueued after it.                                                 *)
(***************************************************************************)
EmptyMap == [k \in {} |-> NoSym]

MapPut(m, k, v) == [j \in (DOMAIN m) \cup {k} |-> IF j = k THEN v ELSE m[j]]

getPkgTestNamespace(pkg) == lookupFQN(<<Names_Test>> \o fullName(pkg))

lookupFlatfileRecord ==
    LET flatFiles == findMemberNoDealias(Symbols_Opus, Names_Flatfiles)
    IN  IF exists(flatFiles) THEN findMemberNoDealias(flatFiles, Names_Record) ELSE NoSym

RBIExporter(pkg, pkgNamespaces) ==
    [pkg |-> pkg,
     pkgNamespace |-> lookupFQN(fullName(pkg)),
     pkgTestNamespace |-> getPkgTestNamespace(pkg),
     pkgNamespaces |-> pkgNamespaces,
     flatfileRecord |-> lookupFlatfileRecord,
     emittedSymbols |-> {},
     referencedPackages |-> EmptyMap,
     referencedRBIs |-> {},
     toEmit |-> <<>>,
     out |-> <<>>,
     indent |-> 0,
     raised |-> FALSE,
     hQueued |-> {}, hExpanded |-> {}, hAsked |-> {}, hRejected |-> <<>>]

\* the exporter of a task that runs no pipeline
NoExporter == [RBIExporter("A", {}) EXCEPT !.pkg = NoSym, !.pkgNamespace = NoSym, !.pkgTestNamespace = NoSym,
                                           !.flatfileRecord = NoSym]

\* an exception that is swallowed
Exception_ignore(x) == x

Exception_raise(x) == [x EXCEPT !.raised = TRUE]

(***************************************************************************)
(* Output: a line is a record; ind is the indentation level it was printed *)
(* at, k the kind of line, s the symbol it declares (NoSym if none), n a   *)
(* name or verbatim text, refs the symbols its text names, in order.       *)
(***************************************************************************)
Line(k, s, n, refs) == [ind |-> 0, k |-> k, s |-> s, n |-> n, refs |-> refs]

println(x, line) ==
    IF x.raised THEN x ELSE [x EXCEPT !.out = Append(@, [line EXCEPT !.ind = x.indent])]

tab(x) == [x EXCEPT !.indent = @ + 1]

untab(x) == [x EXCEPT !.indent = @ - 1]

(***************************************************************************)
(* Ownership tests.                                                        *)
(***************************************************************************)
RECURSIVE isInTestPackage(_, _)
isInTestPackage(x, sym) ==
    IF sym = Symbols_root \/ sym = Symbols_PackageRegistry THEN FALSE
    ELSE IF sym = x.pkgNamespace THEN FALSE
    ELSE IF sym = x.pkgTestNamespace THEN TRUE
    ELSE IF isClassOrModule(sym) /\ sym \in x.pkgNamespaces THEN FALSE
    ELSE isInTestPackage(x, owner(sym))

\* ownership walk that passes through the namespace of another package
RECURSIVE isInPackageWalkThrough(_, _, _)
isInPackageWalkThrough(x, sym, original) ==
    IF sym = Symbols_root \/ sym = Symbols_PackageRegistry
    THEN [ok |-> FALSE, x |-> x]
    ELSE IF sym = x.pkgNamespace \/ sym = x.pkgTestNamespace
    THEN [ok |-> TRUE, x |-> x]
    ELSE isInPackageWalkThrough(x, owner(sym), original)

\* ownership walk that accepts the namespace of any known package
RECURSIVE isInPackageAnyNamespace(_, _, _)
isInPackageAnyNamespace(x, sym, original) ==
    IF sym = Symbols_root \/ sym = Symbols_PackageRegistry
    THEN [ok |-> FALSE, x |-> x]
    ELSE IF sym = x.pkgNamespace \/ sym = x.pkgTestNamespace \/ sym \in x.pkgNamespaces
    THEN [ok |-> TRUE, x |-> x]
    ELSE isInPackageAnyNamespace(x, owner(sym), original)

RECURSIVE isInPackage(_, _, _)
isInPackage(x, sym, original) ==
    IF sym = Symbols_root \/ sym = Symbols_PackageRegistry
    THEN \* not part of a package: was it defined in an RBI?
         LET f == locFile(original)
         IN  [ok |-> FALSE,
              x |-> IF f # NoFile /\ IsRBI(f) /\ ~IsPayload(f)
                    THEN [x EXCEPT !.referencedRBIs = @ \cup {f}]
                    ELSE x]
    ELSE IF sym = x.pkgNamespace \/ sym = x.pkgTestNamespace
    THEN [ok |-> TRUE, x |-> x]
    ELSE IF isClassOrModule(sym) /\ sym \in x.pkgNamespaces
    THEN [ok |-> FALSE, x |-> [x EXCEPT !.referencedPackages = MapPut(@, sym, original),
                                         !.hRejected = Append(@, <<sym, original>>)]]
    ELSE isInPackage(x, owner(sym), original)

(***************************************************************************)
(* maybeEmit: the visited-set and ownership filter in front of toEmit.     *)
(***************************************************************************)
\* maybeEmit without the visited-set test
RECURSIVE maybeEmitNoVisited(_, _)
maybeEmitNoVisited(x, symbol) ==
    IF x.raised THEN x
    ELSE IF isClassOrModule(symbol) /\ isSingletonClass(symbol)
    THEN maybeEmitNoVisited(x, attachedClass(symbol))
    ELSE LET r == isInPackage([x EXCEPT !.hAsked = @ \cup {symbol}], symbol, symbol)
         IN  IF r.ok
             THEN [r.x EXCEPT !.emittedSymbols = @ \cup {symbol},
                              !.toEmit = Append(@, symbol),
                              !.hQueued = @ \cup {symbol}]
             ELSE r.x

RECURSIVE maybeEmit(_, _)
maybeEmit(x, symbol) ==
    IF x.raised THEN x
    ELSE IF isClassOrModule(symbol) /\ isSingletonClass(symbol)
    THEN maybeEmit(x, attachedClass(symbol))
    ELSE IF symbol \notin x.emittedSymbols
    THEN LET r == isInPackage([x EXCEPT !.hAsked = @ \cup {symbol}], symbol, symbol)
         IN  IF r.ok
             THEN [r.x EXCEPT !.emittedSymbols = @ \cup {symbol},
                              !.toEmit = Append(@, symbol),
                              !.hQueued = @ \cup {symbol}]
             ELSE r.x
    ELSE x

(***************************************************************************)
(* Types: the symbols a type embeds (enqueueSymbolsInType) and the symbols *)
(* its rendering names (TypePtr::show).                                    *)
(***************************************************************************)
RECURSIVE enqueueSymbolsInType(_, _)
RECURSIVE enqueueSymbolsInTypes(_, _)
enqueueSymbolsInTypes(x, types) ==
    IF types = <<>> THEN x
    ELSE enqueueSymbolsInTypes(enqueueSymbolsInType(x, Head(types)), Tail(types))

enqueueSymbolsInType(x, type) ==
    CASE type.tag = "nullptr" -> x
      [] type.tag = "AliasType" -> maybeEmit(x, type.symbol)
      [] type.tag = "AndType" -> enqueueSymbolsInType(enqueueSymbolsInType(x, type.left), type.right)
      [] type.tag = "AppliedType" -> enqueueSymbolsInTypes(maybeEmit(x, type.klass), type.targs)
      [] type.tag = "BlamedUntyped" -> x
      [] type.tag = "ClassType" -> maybeEmit(x, type.symbol)
      [] type.tag = "LiteralType" -> x
      [] type.tag = "MetaType" -> enqueueSymbolsInType(x, type.wrapped)
      [] type.tag = "OrType" -> enqueueSymbolsInType(enqueueSymbolsInType(x, type.left), type.right)
      [] type.tag = "SelfType" -> x
      [] type.tag = "SelfTypeParam" -> maybeEmit(x, type.definition)
      [] type.tag = "ShapeType" -> enqueueSymbolsInTypes(enqueueSymbolsInTypes(x, type.keys), type.values)
      [] type.tag = "TupleType" -> enqueueSymbolsInTypes(x, type.elems)
      [] type.tag = "TypeVar" -> x
      [] type.tag = "LambdaParam" -> x

RECURSIVE show(_)
RECURSIVE showAll(_)
showAll(types) == IF types = <<>> THEN <<>> ELSE show(Head(types)) \o showAll(Tail(types))

\* the symbols named by type.show(gs), left to right
show(type) ==
    CASE type.tag = "nullptr" -> <<>>
      [] type.tag \in {"AliasType", "ClassType"} -> <<type.symbol>>
      [] type.tag \in {"AndType", "OrType"} -> show(type.left) \o show(type.right)
      [] type.tag = "AppliedType" -> <<type.klass>> \o showAll(type.targs)
      [] type.tag = "MetaType" -> show(type.wrapped)
      [] type.tag = "SelfTypeParam" -> <<type.definition>>
      [] type.tag = "ShapeType" -> showAll(type.keys) \o showAll(type.values)
      [] type.tag = "TupleType" -> showAll(type.elems)
      [] type.tag \in {"BlamedUntyped", "LiteralType", "SelfType", "TypeVar", "LambdaParam"} -> <<>>

RECURSIVE fmt_join(_, _)
\* fmt::join: the items with the separator between them
fmt_join(items, sep) ==
    IF items = <<>> THEN <<>>
    ELSE IF Len(items) = 1 THEN Head(items)
    ELSE Head(items) \o sep \o fmt_join(Tail(items), sep)

RECURSIVE symbolShow(_)
\* the text of symbol.show(gs): the names on the owner chain, joined by ::
symbolShow(sym) ==
    IF owner(sym) \in {Symbols_root, NoSym} THEN data(sym).name
    ELSE symbolShow(owner(sym)) \o <<":", ":">> \o data(sym).name

RECURSIVE showText(_)
RECURSIVE showTextAll(_)
showTextAll(types) ==
    IF types = <<>> THEN <<>> ELSE <<showText(Head(types))>> \o showTextAll(Tail(types))

\* the text of type.show(gs)
showText(type) ==
    CASE type.tag = "nullptr" -> <<>>
      [] type.tag \in {"AliasType", "ClassType"} -> symbolShow(type.symbol)
      [] type.tag = "OrType" ->
           <<"T", ".", "a", "n", "y", "(">> \o showText(type.left) \o <<",", " ">>
           \o showText(type.right) \o <<")">>
      [] type.tag = "AppliedType" ->
           symbolShow(type.klass) \o <<"[">> \o fmt_join(showTextAll(type.targs), <<",", " ">>) \o <<"]">>
      [] type.tag = "TupleType" ->
           <<"[">> \o fmt_join(showTextAll(type.elems), <<",", " ">>) \o <<"]">>
      [] type.tag = "LambdaParam" -> <<>>

showType(x, type) ==
    IF type.tag = "nullptr" THEN [x |-> x, text |-> <<>>]
    ELSE [x |-> enqueueSymbolsInType(x, type), text |-> show(type)]

typeDeclaration(x, type) ==
    IF type.tag = "nullptr" THEN [x |-> x, text |-> show(Types_untypedUntracked)]
    ELSE IF type.tag = "AliasType" THEN [x |-> maybeEmit(x, type.symbol), text |-> <<type.symbol>>]
    ELSE showType(x, type)

showVariance(x, tm) ==
    IF data(tm).fixed
    THEN showType(x, data(tm).resultType.upperBound)
    ELSE [x |-> x, text |-> <<>>]

getResultType(type) == IF type.tag = "nullptr" THEN Types_untypedUntracked ELSE type

(***************************************************************************)
(* Renderer: pattern recognizers.                                          *)
(***************************************************************************)
defDelegator == <<"d","e","f","_","d","e","l","e","g","a","t","o","r">>

defDelegators == defDelegator \o <<"s">>

RECURSIVE firstComponentAny(_, _)
\* the first component that is not empty once stripped, the keyword itself included
firstComponentAny(components, i) ==
    IF i > Len(components) THEN <<>>
    ELSE LET stripped == StripAsciiWhitespace(components[i])
         IN  IF stripped # <<>> THEN stripped
             ELSE firstComponentAny(components, i + 1)

RECURSIVE firstNonEmptyComponent(_, _)
\* the first component after the keyword that is not empty once stripped, <<>> if none
firstNonEmptyComponent(components, i) ==
    IF i > Len(components) THEN <<>>
    ELSE LET stripped == StripAsciiWhitespace(components[i])
         IN  IF i > 1 /\ stripped # <<>> THEN stripped
             ELSE firstNonEmptyComponent(components, i + 1)

tryEmitDefDelegator(x, method) ==
    LET args == data(method).arguments
    IN  IF args = <<>> THEN [x |-> x, ok |-> FALSE]
        ELSE LET argName == args[1].name
             IN  IF ~StartsWith(argName, defDelegator) THEN [x |-> x, ok |-> FALSE]
                 ELSE IF StartsWith(argName, defDelegators)
                 THEN LET components == StrSplit(argName, {" ", "\n", "(", ")", ","})
                          stripped == firstNonEmptyComponent(components, 1)
                      IN  IF stripped # <<>>
                          THEN [x |-> println(x, Line("def_delegator", method, stripped, <<>>)), ok |-> TRUE]
                          ELSE [x |-> Exception_raise(x), ok |-> TRUE]
                 ELSE [x |-> println(x, Line("verbatim", method, argName, <<>>)), ok |-> TRUE]

isSyntheticBlockArgument(arg) == arg.name = Names_blkArg

\* method aliases do not occur in the symbol graph: a method is its own dealiased method
dealiasMethod(method) == method

RECURSIVE sigParams(_, _)
\* one "name: type" entry per formal parameter, synthetic block arguments skipped
sigParams(acc, args) ==
    IF args = <<>> THEN acc
    ELSE LET argSym == Head(args)
         IN  IF isSyntheticBlockArgument(argSym) THEN sigParams(acc, Tail(args))
             ELSE LET t == showType(acc.x, getResultType(argSym.type))
                  IN  sigParams([x |-> t.x,
                                 typeAndArgNames |-> Append(acc.typeAndArgNames,
                                     argSym.name \o <<":", " ">> \o showText(getResultType(argSym.type))),
                                 refs |-> acc.refs \o t.text], Tail(args))

sigFlags(sym) ==
    (IF "isAbstract" \in sym.flags THEN << <<"a","b","s","t","r","a","c","t">> >> ELSE <<>>)
    \o (IF "isOverridable" \in sym.flags THEN << <<"o","v","e","r","r","i","d","a","b","l","e">> >> ELSE <<>>)
    \o (IF "isOverride" \in sym.flags THEN << <<"o","v","e","r","r","i","d","e">> >> ELSE <<>>)

RECURSIVE typeArgumentNames(_)
\* ":name" for each type argument of the method
typeArgumentNames(typeArguments) ==
    IF typeArguments = <<>> THEN <<>>
    ELSE << <<":">> \o data(Head(typeArguments)).name >> \o typeArgumentNames(Tail(typeArguments))

MAX_PRETTY_SIG_ARGS == 4

MAX_PRETTY_WIDTH == 80

\* the single-line rendering: "{sigCall} {{flags}{type_parameters}{params}{return}}"
oneline(sym, typeAndArgNames) ==
    (IF "isFinal" \in sym.flags THEN <<"s","i","g","(",":","f","i","n","a","l",")">> ELSE <<"s","i","g">>)
    \o <<" ", "{">>
    \o (IF sigFlags(sym) = <<>> THEN <<>> ELSE fmt_join(sigFlags(sym), <<".">>) \o <<".">>)
    \o (IF sym.typeArguments = <<>> THEN <<>>
        ELSE <<"t","y","p","e","_","p","a","r","a","m","e","t","e","r","s","(">>
             \o fmt_join(typeArgumentNames(sym.typeArguments), <<",", " ">>) \o <<")", ".">>)
    \o (IF typeAndArgNames = <<>> THEN <<>>
        ELSE <<"p","a","r","a","m","s","(">> \o fmt_join(typeAndArgNames, <<",", " ">>) \o <<")", ".">>)
    \o (IF getResultType(sym.resultType) = Types_void THEN <<"v","o","i","d">>
        ELSE <<"r","e","t","u","r","n","s","(">> \o showText(getResultType(sym.resultType)) \o <<")">>)
    \o <<"}">>

\* a layout test that sends a rendering of exactly the maximal width to the multi-line form
sigLayoutStrict(text, typeAndArgNames) ==
    IF Len(text) < MAX_PRETTY_WIDTH /\ Len(typeAndArgNames) <= MAX_PRETTY_SIG_ARGS
    THEN "oneline" ELSE "multiline"

\* which of the two forms prettySigForMethod returns
sigLayout(text, typeAndArgNames) ==
    IF Len(text) <= MAX_PRETTY_WIDTH /\ Len(typeAndArgNames) <= MAX_PRETTY_SIG_ARGS
    THEN "oneline" ELSE "multiline"

\* the sig, once the return type and the parameters are rendered
sigLine(method, sym, retText, ps) ==
    [x |-> ps.x,
     sig |-> Line("sig", NoSym, <<>>, retText \o ps.refs)
             @@ [sigCall |-> IF "isFinal" \in sym.flags THEN "sig(:final)" ELSE "sig",
                 flags |-> sigFlags(sym),
                 typeArguments |-> sym.typeArguments,
                 typeAndArgNames |-> ps.typeAndArgNames,
                 isVoid |-> getResultType(sym.resultType) = Types_void,
                 oneline |-> oneline(sym, ps.typeAndArgNames),
                 layout |-> sigLayout(oneline(sym, ps.typeAndArgNames), ps.typeAndArgNames),
                 of |-> method]]

sigWithReturn(method, sym, ret) ==
    sigLine(method, sym, ret.text,
            sigParams([x |-> ret.x, typeAndArgNames |-> <<>>, refs |-> <<>>], sym.arguments))

prettySigForMethod(x, method) ==
    sigWithReturn(method, data(method),
                  IF getResultType(data(method).resultType) = Types_void
                  THEN [x |-> x, text |-> <<>>]
                  ELSE showType(x, getResultType(data(method).resultType)))

RECURSIVE prettyArgs(_)
\* the rendered parameter list of a def; a forwarding parameter ends it
prettyArgs(arguments) ==
    IF arguments = <<>> THEN <<>>
    ELSE LET argSym == Head(arguments)
         IN  IF isSyntheticBlockArgument(argSym) THEN prettyArgs(Tail(arguments))
             ELSE IF argSym.name = Names_fwdArgs THEN <<[prefix |-> "", name |-> argSym.name, suffix |-> ""]>>
             ELSE LET fl == argSym.flags
                      prefix == IF "isRepeated" \in fl
                                THEN (IF "isKeyword" \in fl THEN "**" ELSE "*")
                                ELSE IF "isKeyword" \in fl THEN ""
                                ELSE IF "isBlock" \in fl THEN "&" ELSE ""
                      suffix == IF "isRepeated" \in fl THEN ""
                                ELSE IF "isKeyword" \in fl
                                THEN (IF "isDefault" \in fl THEN ": T.let(T.unsafe(nil), T.untyped)" ELSE ":")
                                ELSE IF "isBlock" \in fl THEN ""
                                ELSE IF "isDefault" \in fl THEN "= T.let(T.unsafe(nil), T.untyped)" ELSE ""
                  IN  <<[prefix |-> prefix, name |-> argSym.name, suffix |-> suffix]>>
                      \o prettyArgs(Tail(arguments))

\* the characters of the string literals prettyDefForMethod formats
toChars(str) ==
    CASE str = "" -> <<>>
      [] str = "private " -> <<"p","r","i","v","a","t","e"," ">>
      [] str = "private_class_method " ->
           <<"p","r","i","v","a","t","e","_","c","l","a","s","s","_","m","e","t","h","o","d"," ">>
      [] str = "protected " -> <<"p","r","o","t","e","c","t","e","d"," ">>
      [] str = "self." -> <<"s","e","l","f",".">>
      [] str = "**" -> <<"*","*">>
      [] str = "*" -> <<"*">>
      [] str = "&" -> <<"&">>
      [] str = ":" -> <<":">>
      [] str = ": T.let(T.unsafe(nil), T.untyped)" ->
           <<":"," ","T",".","l","e","t","(","T",".","u","n","s","a","f","e","(","n","i","l",")",",",
             " ","T",".","u","n","t","y","p","e","d",")">>
      [] str = "= T.let(T.unsafe(nil), T.untyped)" ->
           <<"="," ","T",".","l","e","t","(","T",".","u","n","s","a","f","e","(","n","i","l",")",",",
             " ","T",".","u","n","t","y","p","e","d",")">>

\* fmt::format("{}{}{}", prefix, argName, suffix) for each rendered parameter
prettyArgTexts(args) == [i \in 1..Len(args) |-> toChars(args[i].prefix) \o args[i].name \o toChars(args[i].suffix)]

\* the single-line rendering: "{visibility}def {prefix}{name}({args})", without parentheses when
\* there is no parameter
prettyDefResult(visibility, methodNamePrefix, methodName, args) ==
    toChars(visibility) \o <<"d","e","f"," ">> \o toChars(methodNamePrefix) \o methodName
    \o (IF Len(args) > 0 THEN <<"(">> \o fmt_join(prettyArgTexts(args), <<",", " ">>) \o <<")">> ELSE <<>>)

\* a layout test that keeps a rendering of exactly the maximal width on one line
defLayoutStrict(result, args) ==
    IF Len(args) > 0 /\ Len(result) > MAX_PRETTY_WIDTH THEN "multiline" ELSE "oneline"

\* which of the two forms prettyDefForMethod returns
defLayout(result, args) ==
    IF Len(args) > 0 /\ Len(result) >= MAX_PRETTY_WIDTH THEN "multiline" ELSE "oneline"

\* the def line: its parts, the width of its single-line rendering and the form returned
prettyDefLine(method, methodData, visibility, methodNamePrefix, args, result) ==
    Line("def", method, methodData.name, <<>>)
    @@ [visibility |-> visibility, methodNamePrefix |-> methodNamePrefix,
        prettyArgs |-> args, width |-> Len(result), layout |-> defLayout(result, args)]

prettyDefWithArgs(method, methodData, visibility, methodNamePrefix, args) ==
    prettyDefLine(method, methodData, visibility, methodNamePrefix, args,
                  prettyDefResult(visibility, methodNamePrefix, methodData.name, args))

prettyDefForMethod(method) ==
    LET methodData == data(method)
        visibility == IF "isPrivate" \in methodData.flags
                      THEN (IF isSingletonClass(methodData.owner) THEN "private_class_method " ELSE "private ")
                      ELSE IF "isProtected" \in methodData.flags THEN "protected " ELSE ""
        methodNamePrefix == IF exists(methodData.owner) /\ exists(attachedClass(methodData.owner))
                            THEN "self." ELSE ""
    IN  prettyDefWithArgs(method, methodData, visibility, methodNamePrefix,
                          prettyArgs(data(dealiasMethod(method)).arguments))

(***************************************************************************)
(* emit(FieldRef), emit(TypeMemberRef), emit(MethodRef, fields).           *)
(***************************************************************************)
printField(t, k, field) == println(t.x, Line(k, field, data(field).name, t.text))

emit_FieldRef(x, field, isCVar) ==
    LET fd == data(field)
        resultType == fd.resultType
        skipped ==
            /\ "isStaticField" \in fd.flags
            /\ \/ /\ resultType.tag = "AliasType"
                  /\ kind(resultType.symbol) = "TypeMember"
                  /\ isSingletonClass(owner(resultType.symbol))
               \/ /\ resultType.tag = "ClassType"
                  /\ superClass(superClass(resultType.symbol)) = Symbols_T_Enum
    IN  IF skipped THEN x
        ELSE IF "isStaticField" \in fd.flags /\ "isStaticFieldTypeAlias" \in fd.flags
        THEN printField(showType(x, resultType), "type_alias", field)
        ELSE printField(typeDeclaration(x, resultType),
                        IF "isStaticField" \in fd.flags /\ ~isCVar THEN "static_field" ELSE "field",
                        field)

printTypeMember(v, tm) ==
    println(v.x, Line(IF isSingletonClass(owner(tm)) THEN "type_template" ELSE "type_member",
                      tm, data(tm).name, v.text)
                 @@ [variance |-> IF data(tm).fixed THEN "fixed" ELSE data(tm).variance])

emit_TypeMemberRef(x, tm) ==
    IF tm \in x.emittedSymbols THEN x
    ELSE LET x1 == [x EXCEPT !.emittedSymbols = @ \cup {tm}]
         IN  IF data(tm).name = Names_AttachedClass THEN x1
             ELSE printTypeMember(showVariance(x1, tm), tm)

RECURSIVE emitFields(_, _)
emitFields(x, fields) ==
    IF fields = <<>> THEN x ELSE emitFields(emit_FieldRef(x, Head(fields), FALSE), Tail(fields))

RECURSIVE printMixedIn(_, _, _)
printMixedIn(x, method, elems) ==
    IF elems = <<>> THEN x
    ELSE printMixedIn(println(x, Line("mixes_in_class_methods", NoSym, <<>>, show(Head(elems)))),
                      method, Tail(elems))

printSig(r) == println(r.x, r.sig)

\* the def line, with the instance fields inside the body of a non-abstract method
emitDef(x2, method, fields, def) ==
    IF fields = <<>> \/ "isAbstract" \in data(method).flags
    THEN [x |-> println(x2, def @@ [body |-> "; end"]), fields |-> fields]
    ELSE [x |-> println(untab(emitFields(tab(println(x2, def @@ [body |-> ""])), fields)),
                        Line("end", NoSym, <<>>, <<>>)),
          fields |-> <<>>]

emitSigAndDef(x1, method, fields, d) ==
    IF d.ok THEN [x |-> d.x, fields |-> fields]
    ELSE emitDef(IF data(method).hasSig THEN printSig(prettySigForMethod(x1, dealiasMethod(method))) ELSE x1,
                 method, fields, prettyDefForMethod(method))

\* returns the exporter and the (by-reference) fields vector after the call
emit_MethodRef(x, method, fields) ==
    IF x.raised \/ method \in x.emittedSymbols THEN [x |-> x, fields |-> fields]
    ELSE IF data(method).name = Names_staticInit THEN [x |-> x, fields |-> fields]
    ELSE LET x1 == [x EXCEPT !.emittedSymbols = @ \cup {method}]
             md == data(method)
         IN  IF StartsWith(md.name, <<"<">>)
             THEN [x |-> IF md.name = Names_mixedInClassMethods
                         THEN printMixedIn(x1, method, md.resultType.elems)
                         ELSE x1,
                   fields |-> fields]
             ELSE emitSigAndDef(x1, method, fields, tryEmitDefDelegator(x1, method))

(***************************************************************************)
(* Props, struct props, flatfile fields.                                   *)
(***************************************************************************)
propLine(t, t2, name, isConst, hasDefault) ==
    println(t2.x, Line(IF isConst THEN "const" ELSE "prop", NoSym, name, t.text \o t2.text)
                  @@ [hasDefault |-> hasDefault])

\* the default expression renders the type a second time
propDefault(t, name, type, isConst, hasDefault) ==
    propLine(t, IF hasDefault THEN showType(t.x, type) ELSE [x |-> t.x, text |-> <<>>],
             name, isConst, hasDefault)

emitProp(x, name, type, isConst, hasDefault) ==
    propDefault(showType(x, type), name, type, isConst, hasDefault)

removePropField(fields, name) ==
    SelectSeq(fields, LAMBDA field : data(field).name # lookupWithAt(name))

\* a removal that leaves every method in place and sees no setter
removePropMethodsNone(methods, name, isConst) == [methods |-> methods, isConst |-> isConst]

\* the methods left, and whether a setter `name=` was among those removed
removePropMethods(methods, name, isConst) ==
    [methods |-> SelectSeq(methods, LAMBDA method :
                    data(method).name # lookupWithEq(name) /\ data(method).name # name),
     isConst |-> isConst /\ \A i \in 1..Len(methods) : data(methods[i]).name # lookupWithEq(name)]

RECURSIVE emitMethods(_, _)
\* for (auto method : methods) emit(method, fields)
emitMethods(r, methods) ==
    IF methods = <<>> THEN r
    ELSE emitMethods(emit_MethodRef(r.x, Head(methods), r.fields), Tail(methods))

RECURSIVE structPropsLoop(_, _)
structPropsLoop(acc, args) ==
    IF args = <<>> THEN acc
    ELSE LET arg == Head(args)
         IN  IF isSyntheticBlockArgument(arg) \/ "isKeyword" \notin arg.flags
             THEN structPropsLoop(acc, Tail(args))
             ELSE LET rm == removePropMethods(acc.methods, arg.name, TRUE)
                  IN  structPropsLoop(
                        [x |-> emitProp(acc.x, arg.name, arg.type, rm.isConst, "isDefault" \in arg.flags),
                         methods |-> rm.methods,
                         fields |-> removePropField(acc.fields, arg.name)], Tail(args))

\* the initializer when it has a source location of its own, then the methods left
structInitializerPhase(a, structInitializer) ==
    emitMethods(IF data(structInitializer).ownLoc
                THEN emit_MethodRef(a.x, structInitializer, a.fields)
                ELSE [x |-> a.x, fields |-> a.fields],
                a.methods).x

maybeEmitStructProps(x, structInitializer, methods, fields) ==
    structInitializerPhase(structPropsLoop([x |-> x, methods |-> methods, fields |-> fields],
                                           data(structInitializer).arguments),
                           structInitializer)

isPropMethod(method) ==
    /\ ~EndsWith(data(method).name, <<"=">>)
    /\ \/ StartsWith(data(method).src, <<"p","r","o","p"," ">>)
       \/ StartsWith(data(method).src, <<"c","o","n","s","t"," ">>)

isFlatfileFieldMethod(method) ==
    /\ ~EndsWith(data(method).name, <<"=">>)
    /\ \/ StartsWith(data(method).src, <<"f","i","e","l","d"," ">>)
       \/ StartsWith(data(method).src, <<"f","r","o","m"," ">>)
       \/ StartsWith(data(method).src, <<"p","a","t","t","e","r","n"," ">>)
       \/ StartsWith(data(method).src, <<"p","a","t","t","e","r","n","(">>)

RECURSIVE isFlatfile(_, _)
isFlatfile(x, klass) ==
    IF klass = Symbols_root \/ ~exists(klass) THEN FALSE
    ELSE IF klass = x.flatfileRecord THEN TRUE
    ELSE isFlatfile(x, superClass(klass))

shouldSkipMember(member) ==
    \/ data(member).nameKind = "UNIQUE"
    \/ data(member).name \in {Names_singleton, Names_AttachedClass, Names_attached}

RECURSIVE propsLoop(_, _)
\* the second phase of the props block: one prop line per recognised prop method
propsLoop(acc, propMethods) ==
    IF propMethods = <<>> THEN acc
    ELSE LET propMethod == Head(propMethods)
             name == data(propMethod).name
             rm == removePropMethods(acc.pendingMethods, name, TRUE)
         IN  propsLoop([x |-> emitProp(acc.x, name, data(propMethod).resultType, rm.isConst, FALSE),
                        pendingFields |-> removePropField(acc.pendingFields, name),
                        pendingMethods |-> rm.methods], Tail(propMethods))

RECURSIVE flatfileLoop(_, _)
flatfileLoop(acc, fieldMethods) ==
    IF fieldMethods = <<>> THEN acc
    ELSE LET name == data(Head(fieldMethods)).name
         IN  flatfileLoop([acc EXCEPT
                             !.x = println(@, Line("flatfile_field", Head(fieldMethods), name, <<>>)),
                             !.pendingMethods = removePropMethods(@, name, TRUE).methods],
                          Tail(fieldMethods))

(***************************************************************************)
(* emit(ClassOrModuleRef): the class header and body.                      *)
(***************************************************************************)
RECURSIVE flagLines(_, _)
flagLines(x, directives) ==
    IF directives = <<>> THEN x
    ELSE flagLines(println(x, Line(Head(directives), NoSym, <<>>, <<>>)), Tail(directives))

classDirectives(klass) ==
    (IF "abstract" \in data(klass).flags THEN <<"abstract!">> ELSE <<>>)
    \o (IF "final" \in data(klass).flags THEN <<"final!">> ELSE <<>>)
    \o (IF "interface" \in data(klass).flags THEN <<"interface!">> ELSE <<>>)
    \o (IF "sealed" \in data(klass).flags THEN <<"sealed!">> ELSE <<>>)

RECURSIVE mixinsLoop(_, _)
\* include/extend lines of a class, each mixin handed to maybeEmit
mixinsLoop(x, mixins) ==
    IF mixins = <<>> THEN x
    ELSE LET mixin == Head(mixins)
             keyword == IF isSingletonClass(mixin) THEN "extend" ELSE "include"
         IN  mixinsLoop(maybeEmit(println(x, Line(keyword, NoSym, <<>>, <<mixin>>)), mixin), Tail(mixins))

RECURSIVE singletonMixinsLoop(_, _)
singletonMixinsLoop(x, mixins) ==
    IF mixins = <<>> THEN x
    ELSE singletonMixinsLoop(maybeEmit(println(x, Line("extend", NoSym, <<>>, <<Head(mixins)>>)), Head(mixins)),
                             Tail(mixins))

RECURSIVE typeMembersLoop(_, _)
typeMembersLoop(x, tms) ==
    IF tms = <<>> THEN x ELSE typeMembersLoop(emit_TypeMemberRef(x, Head(tms)), Tail(tms))

RECURSIVE membersLoop(_, _, _, _)
\* the loop over membersStableOrderSlow of the class itself
membersLoop(acc, klass, isEnum, members) ==
    IF members = <<>> THEN acc
    ELSE LET member == Head(members)
             rest == Tail(members)
         IN  IF shouldSkipMember(member) THEN membersLoop(acc, klass, isEnum, rest)
             ELSE CASE kind(member) = "ClassOrModule" ->
                         IF member \in acc.x.pkgNamespaces
                         THEN membersLoop(acc, klass, isEnum, rest)
                         ELSE IF isEnum /\ superClass(member) = klass
                         THEN membersLoop([acc EXCEPT !.pendingEnumValues = Append(@, member)],
                                          klass, isEnum, rest)
                         ELSE membersLoop([acc EXCEPT !.x = maybeEmit(@, member)], klass, isEnum, rest)
                    [] kind(member) \in {"TypeMember", "TypeArgument"} ->
                         membersLoop(acc, klass, isEnum, rest)
                    [] kind(member) = "Method" ->
                         IF data(member).name = Names_initialize
                         THEN membersLoop([acc EXCEPT !.initializeMethod = member], klass, isEnum, rest)
                         ELSE membersLoop([acc EXCEPT !.pendingMethods = Append(@, member)],
                                          klass, isEnum, rest)
                    [] kind(member) = "FieldOrStaticField" ->
                         IF "isField" \in data(member).flags
                         THEN membersLoop([acc EXCEPT !.pendingFields = Append(@, member)],
                                          klass, isEnum, rest)
                         ELSE IF StartsWith(data(member).name, <<"@", "@">>)
                         THEN membersLoop([acc EXCEPT !.x = emit_FieldRef(@, member, TRUE)],
                                          klass, isEnum, rest)
                         ELSE membersLoop([acc EXCEPT !.x = maybeEmit(@, member)], klass, isEnum, rest)

RECURSIVE singletonMembersLoop(_, _, _)
\* the loop over the members of the singleton class; acc is the exporter and pendingFields
singletonMembersLoop(acc, klass, members) ==
    IF members = <<>> THEN acc
    ELSE LET member == Head(members)
             rest == Tail(members)
         IN  IF shouldSkipMember(member) THEN singletonMembersLoop(acc, klass, rest)
             ELSE CASE kind(member) = "ClassOrModule" ->
                         IF member \in acc.x.pkgNamespaces
                         THEN singletonMembersLoop(acc, klass, rest)
                         ELSE singletonMembersLoop([acc EXCEPT !.x = maybeEmit(@, member)], klass, rest)
                    [] kind(member) \in {"TypeMember", "TypeArgument"} ->
                         singletonMembersLoop(acc, klass, rest)
                    [] kind(member) = "Method" ->
                         IF "sealed" \in data(klass).flags /\ data(member).name = Names_sealedSubclasses
                         THEN singletonMembersLoop(acc, klass, rest)
                         ELSE singletonMembersLoop(emit_MethodRef(acc.x, member, acc.fields), klass, rest)
                    [] kind(member) = "FieldOrStaticField" ->
                         IF "isField" \in data(member).flags
                         THEN singletonMembersLoop([acc EXCEPT !.x = emit_FieldRef(@, member, FALSE)],
                                                   klass, rest)
                         ELSE IF StartsWith(data(member).name, <<"@", "@">>)
                         THEN singletonMembersLoop([acc EXCEPT !.x = emit_FieldRef(@, member, TRUE)],
                                                   klass, rest)
                         ELSE singletonMembersLoop([acc EXCEPT !.x = maybeEmit(@, member)], klass, rest)

RECURSIVE enumLines(_, _)
enumLines(x, enumVals) ==
    IF enumVals = <<>> THEN x
    ELSE enumLines(println(x, Line("enum_value", Head(enumVals), data(Head(enumVals)).name, <<>>)),
                   Tail(enumVals))

emitInitialize(m, r) == [x |-> r.x, pendingFields |-> r.fields, pendingMethods |-> m.pendingMethods]

\* struct props, or the initializer; the vectors moved into maybeEmitStructProps are left empty
initializerPhase(m, isStruct) ==
    IF isStruct
    THEN [x |-> maybeEmitStructProps(m.x, m.initializeMethod, m.pendingMethods, m.pendingFields),
          pendingFields |-> <<>>, pendingMethods |-> <<>>]
    ELSE IF exists(m.initializeMethod)
    THEN emitInitialize(m, emit_MethodRef(m.x, m.initializeMethod, m.pendingFields))
    ELSE [x |-> m.x, pendingFields |-> m.pendingFields, pendingMethods |-> m.pendingMethods]

propsPhase(s) == propsLoop(s, SelectSeq(s.pendingMethods, isPropMethod))

closeFlatfile(l) ==
    [x |-> println(untab(l.x), Line("end", NoSym, <<>>, <<>>)),
     pendingFields |-> l.pendingFields, pendingMethods |-> l.pendingMethods]

flatfilePhase(p, isFlatFile, fieldMethods) ==
    IF isFlatFile /\ fieldMethods # <<>>
    THEN closeFlatfile(flatfileLoop([x |-> tab(println(p.x, Line("flatfile do", NoSym, <<>>, <<>>))),
                                     pendingFields |-> p.pendingFields,
                                     pendingMethods |-> p.pendingMethods], fieldMethods))
    ELSE [x |-> p.x, pendingFields |-> p.pendingFields, pendingMethods |-> p.pendingMethods]

flatfileFields(p, isFlatFile) ==
    flatfilePhase(p, isFlatFile, SelectSeq(p.pendingMethods, isFlatfileFieldMethod))

methodsPhase(f) == emitMethods([x |-> f.x, fields |-> f.pendingFields], f.pendingMethods)

singletonPhase(r, klass, singleton) ==
    IF exists(singleton)
    THEN singletonMembersLoop(
           [x |-> typeMembersLoop(singletonMixinsLoop(r.x, data(singleton).mixins),
                                  data(singleton).typeMembers),
            fields |-> r.fields],
           klass, data(singleton).members).x
    ELSE r.x

\* a class end without the enums block
enumsPhaseSkip(g, isEnum, pendingEnumValues) == g

enumsPhase(g, isEnum, pendingEnumValues) ==
    IF isEnum /\ pendingEnumValues # <<>>
    THEN println(untab(enumLines(tab(println(g, Line("enums do", NoSym, <<>>, <<>>))),
                                 pendingEnumValues)),
                 Line("end", NoSym, <<>>, <<>>))
    ELSE g

\* what follows the loop over the members
afterMembers(m, klass, isEnum, isStruct, isFlatFile) ==
    enumsPhase(singletonPhase(methodsPhase(flatfileFields(propsPhase(initializerPhase(m, isStruct)),
                                                          isFlatFile)),
                              klass, lookupSingletonClass(klass)),
               isEnum, m.pendingEnumValues)

\* the body of a class, from the directives to the enums block
classBody(x0, klass, isEnum, isStruct, isFlatFile) ==
    afterMembers(membersLoop([x |-> typeMembersLoop(mixinsLoop(flagLines(x0, classDirectives(klass)),
                                                               data(klass).mixins),
                                                    data(klass).typeMembers),
                              initializeMethod |-> NoSym, pendingFields |-> <<>>,
                              pendingEnumValues |-> <<>>, pendingMethods |-> <<>>],
                             klass, isEnum, data(klass).members),
                 klass, isEnum, isStruct, isFlatFile)

emit_ClassOrModuleRef(x, klass) ==
    LET chk == isInPackage(x, klass, klass)
    IN  IF ~chk.ok \/ klass \notin x.emittedSymbols
        THEN Exception_raise(chk.x)
        ELSE IF superClass(superClass(klass)) = Symbols_T_Enum THEN chk.x
        ELSE IF StartsWith(data(klass).name, <<"<">>) THEN chk.x
        ELSE LET isEnum == superClass(klass) = Symbols_T_Enum
                 isStruct == superClass(klass) = Symbols_T_Struct
                 isFlatFile == isFlatfile(x, klass)
                 defType == IF data(klass).isClass THEN "class" ELSE "module"
                 named == exists(superClass(klass)) /\ superClass(klass) # Symbols_ImplicitModuleSuperClass
                 x1 == IF named THEN maybeEmit(chk.x, superClass(klass)) ELSE chk.x
                 x2 == println(x1, Line(defType, klass, <<>>, IF named THEN <<superClass(klass)>> ELSE <<>>))
                 x3 == classBody(tab([x2 EXCEPT !.hExpanded = @ \cup {klass}]),
                                 klass, isEnum, isStruct, isFlatFile)
             IN  println(untab(x3), Line("end", NoSym, <<>>, <<>>))

\* a loop iteration that takes the oldest symbol of the worklist
emitLoopIterationOldest(x) ==
    LET symbol == x.toEmit[1]
        x1 == [x EXCEPT !.toEmit = Tail(@)]
    IN  CASE kind(symbol) = "ClassOrModule" -> emit_ClassOrModuleRef(x1, symbol)
          [] kind(symbol) = "Method" -> emit_MethodRef(x1, symbol, <<>>).x
          [] kind(symbol) = "FieldOrStaticField" -> emit_FieldRef(x1, symbol, FALSE)
          [] kind(symbol) \in {"TypeMember", "TypeArgument"} -> x1

(***************************************************************************)
(* emitLoop: one iteration pops the most recently enqueued symbol and      *)
(* renders it.                                                             *)
(***************************************************************************)
emitLoopIteration(x) ==
    LET symbol == x.toEmit[Len(x.toEmit)]
        x1 == [x EXCEPT !.toEmit = SubSeq(@, 1, Len(@) - 1)]
    IN  CASE kind(symbol) = "ClassOrModule" -> emit_ClassOrModuleRef(x1, symbol)
          [] kind(symbol) = "Method" -> emit_MethodRef(x1, symbol, <<>>).x
          [] kind(symbol) = "FieldOrStaticField" -> emit_FieldRef(x1, symbol, FALSE)
          [] kind(symbol) \in {"TypeMember", "TypeArgument"} -> x1

(***************************************************************************)
(* RBIExporter::emit(): export resolution, the two passes, the manifests.  *)
(***************************************************************************)
\* export resolution that keeps an entry whatever lookupFQN returned
RECURSIVE resolveExportsKeepAll(_, _, _)
resolveExportsKeepAll(x, acc, rawExports) ==
    IF rawExports = <<>> THEN acc
    ELSE LET exportSymbol == lookupFQN(Head(rawExports))
         IN  IF isInTestPackage(x, exportSymbol)
             THEN resolveExportsKeepAll(x, [acc EXCEPT !.testExports = Append(@, exportSymbol)],
                                        Tail(rawExports))
             ELSE resolveExportsKeepAll(x, [acc EXCEPT !.exports = Append(@, exportSymbol)],
                                        Tail(rawExports))

RECURSIVE resolveExports(_, _, _)
\* the loop over pkg.exports(): acc holds the vectors exports and testExports
resolveExports(x, acc, rawExports) ==
    IF rawExports = <<>> THEN acc
    ELSE LET exportSymbol == lookupFQN(Head(rawExports))
         IN  IF ~exists(exportSymbol) THEN resolveExports(x, acc, Tail(rawExports))
             ELSE IF isInTestPackage(x, exportSymbol)
             THEN resolveExports(x, [acc EXCEPT !.testExports = Append(@, exportSymbol)], Tail(rawExports))
             ELSE resolveExports(x, [acc EXCEPT !.exports = Append(@, exportSymbol)], Tail(rawExports))

RECURSIVE resolveTestExports(_, _)
resolveTestExports(testExports, rawTestExports) ==
    IF rawTestExports = <<>> THEN testExports
    ELSE LET exportSymbol == lookupFQN(Head(rawTestExports))
         IN  resolveTestExports(IF exists(exportSymbol) THEN Append(testExports, exportSymbol) ELSE testExports,
                                Tail(rawTestExports))

RECURSIVE maybeEmitAll(_, _)
maybeEmitAll(x, symbols) ==
    IF symbols = <<>> THEN x ELSE maybeEmitAll(maybeEmit(x, Head(symbols)), Tail(symbols))

Header == Line("# typed: true", NoSym, <<>>, <<>>)

BlankLine == Line("", NoSym, <<>>, <<>>)

\* Output::toString returns the buffer; the caller's exporter keeps an empty one
toString(x) == x.out

RECURSIVE StrJoin(_, _)
StrJoin(items, sep) ==
    IF items = <<>> THEN <<>>
    ELSE IF Len(items) = 1 THEN <<"\"", Head(items), "\"">>
    ELSE <<"\"", Head(items), "\"", sep>> \o StrJoin(Tail(items), sep)

\* the orders in which an unordered container can be iterated
IterationOrders(set) ==
    {order \in [1..Cardinality(set) -> set] : \A i, j \in 1..Cardinality(set) : i # j => order[i] # order[j]}

\* the manifest text, for one iteration order of referencedPackages and of referencedRBIs
dependencies(pkgOrder, rbiOrder) ==
    <<"{\"packageRefs\":[">> \o StrJoin(pkgOrder, ",") \o <<"], \"rbiRefs\":[">>
    \o StrJoin(rbiOrder, ",") \o <<"]}">>

RBIOutput(baseFilePath) ==
    [baseFilePath |-> baseFilePath, rbi |-> <<>>, rbiPackageDependencies |-> <<>>,
     testRBI |-> <<>>, testRBIPackageDependencies |-> <<>>]

(***************************************************************************)
(* RBIGenerator::buildPackageNamespace.                                    *)
(***************************************************************************)
buildPackageNamespace(pkgs) ==
    {ns \in {lookupFQN(fullName(p)) : p \in pkgs} \cup {getPkgTestNamespace(p) : p \in pkgs} : exists(ns)}

(***************************************************************************)
(* State.                                                                  *)
(*   packages, rawExports, rawTestExports  the package database (input)    *)
(*   numWorkers          workers.size()                                    *)
(*   packageNamespaces   the set built by buildPackageNamespace            *)
(*   inputq              the bounded queue of package names                *)
(*   threadBarrier       the count of the blocking counter                 *)
(*   mainpc              position of RBIGenerator::run                     *)
(*   pc, job             per task: position of the job lambda, its package *)
(*   exporter            per task: the RBIExporter of the running pipeline *)
(*   exports, testExports  per task: the resolved export vectors           *)
(*   output              per task: the RBIOutput of the running pipeline   *)
(*   files               the output directory: file name -> content        *)
(*   runs, completed     history: per package, the number of runOnce calls *)
(*                       and of finished write blocks                      *)
(*   runNo, firstRun     history: which run this is, and the files the     *)
(*                       first run left                                    *)
(***************************************************************************)
VARIABLES packages, rawExports, rawTestExports, numWorkers, packageNamespaces, inputq,
          threadBarrier, mainpc, pc, job, exporter, exports, testExports, output, files,
          runs, completed, runNo, firstRun

vars == <<gs, packages, rawExports, rawTestExports, numWorkers, packageNamespaces, inputq,
          threadBarrier, mainpc, pc, job, exporter, exports, testExports, output, files,
          runs, completed, runNo, firstRun>>

inputs == <<gs, packages, rawExports, rawTestExports, numWorkers>>

Max(a, b) == IF a >= b THEN a ELSE b

\* the tasks multiplexJob runs: one per worker, or one on the calling thread when there is no worker
Tasks == 1..Max(MaxWorkers, 1)

multiplexJob(n) == 1..Max(n, 1)

(***************************************************************************)
(* Inputs: the export name-paths a package can declare.                    *)
(***************************************************************************)
ExportCandidates ==
    { << <<"A">> >>,
      << <<"A">>, <<"K">> >>,
      << <<"A">>, <<"K","2">> >>,
      << <<"A">>, <<"E">> >>,
      << <<"A">>, <<"S">> >>,
      << <<"A">>, <<"C">> >>,
      << <<"A">>, <<"N","o","p","e">> >>,
      << <<"A">>, <<"C">>, <<"Z">> >>,
      << <<"Q">>, <<"B","a","s","e">> >>,
      << Names_Test, <<"A">>, <<"T","1">> >> }

TestExportCandidates ==
    { << Names_Test, <<"A">>, <<"T","1">> >>,
      << Names_Test, <<"A">>, <<"H","e","l","p","e","r">> >>,
      << Names_Test, <<"A">>, <<"R">> >>,
      << <<"Q">>, <<"B","a","s","e">> >> }

SeqsUpTo(set, n) == UNION {[1..k -> set] : k \in 0..n}

DefaultExports ==
    [p \in AllPackages |->
        CASE p = "A" -> << << <<"A">>, <<"K">> >>, << <<"A">>, <<"K","2">> >> >>
          [] p = "AB" -> << << <<"A">>, <<"B">>, <<"X">> >> >>
          [] p = "Q" -> << << <<"Q">>, <<"B","a","s","e">> >> >>]

DefaultTestExports ==
    [p \in AllPackages |-> IF p = "A" THEN << << Names_Test, <<"A">>, <<"T","1">> >> >> ELSE <<>>]

(***************************************************************************)
(* Initial states: the entry of RBIGenerator::run.                         *)
(***************************************************************************)
InitRun ==
    /\ packageNamespaces = {}
    /\ inputq = <<>>
    /\ threadBarrier = 0
    /\ mainpc = "start"
    /\ pc = [t \in Tasks |-> "idle"]
    /\ job = [t \in Tasks |-> NoSym]
    /\ exporter = [t \in Tasks |-> NoExporter]
    /\ exports = [t \in Tasks |-> <<>>]
    /\ testExports = [t \in Tasks |-> <<>>]
    /\ output = [t \in Tasks |-> RBIOutput(NoSym)]
    /\ files = EmptyMap
    /\ runs = [p \in AllPackages |-> 0]
    /\ completed = [p \in AllPackages |-> 0]
    /\ runNo = 1
    /\ firstRun = EmptyMap

\* one pipeline at a time (no worker thread), package A's export lists drawn from the candidates
Init ==
    /\ gs = GlobalState
    /\ numWorkers = 0
    /\ packages \in {{"A", "AB", "Q"}, {"A", "Q"}}
    /\ \E e \in SeqsUpTo(ExportCandidates, MaxExports) :
         rawExports = [DefaultExports EXCEPT !["A"] = e]
    /\ \E e \in SeqsUpTo(TestExportCandidates, MaxTestExports) :
         rawTestExports = [DefaultTestExports EXCEPT !["A"] = e]
    /\ InitRun

\* any package database, any number of workers, fixed export lists
InitDriver ==
    /\ gs = GlobalState
    /\ numWorkers \in 0..MaxWorkers
    /\ packages \in (SUBSET AllPackages) \ {{}}
    /\ rawExports = DefaultExports
    /\ rawTestExports = DefaultTestExports
    /\ InitRun

\* a parameter name of w characters
Pad(w) == [i \in 1..w |-> "x"]

\* n formal parameters of type String, the first with a name of w characters, and the block
SigArgs(n, w) ==
    IF n = 0 THEN <<BlkArg>>
    ELSE <<Arg(Pad(w), tString, {})>> \o [i \in 1..(n - 1) |-> Arg(<<"y">>, tString, {})] \o <<BlkArg>>

\* the symbol graph with the parameter list of A::K#initialize replaced; fixed package database
InitSig ==
    /\ \E n \in 0..MaxSigArgs, w \in 1..MaxPad :
         gs = [GlobalState EXCEPT !["A::K#initialize"].arguments = SigArgs(n, w)]
    /\ numWorkers = 0
    /\ packages = AllPackages
    /\ rawExports = DefaultExports
    /\ rawTestExports = DefaultTestExports
    /\ InitRun

\* n formal parameters named y of the type of the parameter of A::K#foo, and the block
DefArgs(n) == [i \in 1..n |-> Arg(<<"y">>, ClassType("A::B::X"), {})] \o <<BlkArg>>

\* the symbol graph with the name and the parameter list of A::K#foo replaced; fixed package
\* database
InitDef ==
    /\ \E n \in 0..MaxDefArgs, w \in (MaxName - 8)..MaxName :
         gs = [GlobalState EXCEPT !["A::K#foo"].name = Pad(w), !["A::K#foo"].arguments = DefArgs(n)]
    /\ numWorkers = 0
    /\ packages = AllPackages
    /\ rawExports = DefaultExports
    /\ rawTestExports = DefaultTestExports
    /\ InitRun

(***************************************************************************)
(* RBIGenerator::run, on the calling thread.                               *)
(***************************************************************************)
\* lines 1180-1191: the barrier, the namespaces, the queue, the start of the tasks
RunStart ==
    /\ mainpc = "start"
    /\ packages # {}
    /\ threadBarrier' = Max(numWorkers, 1)
    /\ packageNamespaces' = buildPackageNamespace(packages)
    /\ inputq' = SelectSeq(PackageOrder, LAMBDA p : p \in packages)
    /\ pc' = [t \in Tasks |-> IF t \in multiplexJob(numWorkers) THEN "pop" ELSE "idle"]
    /\ mainpc' = "wait"
    /\ UNCHANGED <<inputs, job, exporter, exports, testExports, output, files, runs, completed,
                   runNo, firstRun>>

\* a run that returns without waiting for the barrier
WaitNoBarrier ==
    /\ mainpc = "wait"
    /\ mainpc' = "returned"
    /\ UNCHANGED <<inputs, packageNamespaces, inputq, threadBarrier, pc, job, exporter, exports,
                   testExports, output, files, runs, completed, runNo, firstRun>>

\* threadBarrier.Wait() returns once the count is zero
Wait ==
    /\ mainpc = "wait"
    /\ threadBarrier = 0
    /\ mainpc' = "returned"
    /\ UNCHANGED <<inputs, packageNamespaces, inputq, threadBarrier, pc, job, exporter, exports,
                   testExports, output, files, runs, completed, runNo, firstRun>>

(***************************************************************************)
(* The job lambda of a task: try_pop, runOnce, the writes.                 *)
(***************************************************************************)
\* a task that pops a package and does not run its pipeline
TryPopSkip(t) ==
    /\ pc[t] = "pop"
    /\ inputq # <<>>
    /\ inputq' = Tail(inputq)
    /\ UNCHANGED <<inputs, packageNamespaces, threadBarrier, mainpc, pc, job, exporter, exports,
                   testExports, output, files, runs, completed, runNo, firstRun>>

\* try_pop got an item: runOnce constructs the exporter, emit() resolves the exports and, when
\* there are production exports, hands them to maybeEmit
TryPopGot(t) ==
    /\ pc[t] = "pop"
    /\ inputq # <<>>
    /\ LET p == Head(inputq)
           x0 == RBIExporter(p, packageNamespaces)
           r == resolveExports(x0, [exports |-> <<>>, testExports |-> <<>>], rawExports[p])
           te == resolveTestExports(r.testExports, rawTestExports[p])
       IN  /\ inputq' = Tail(inputq)
           /\ job' = [job EXCEPT ![t] = p]
           /\ runs' = [runs EXCEPT ![p] = @ + 1]
           /\ exports' = [exports EXCEPT ![t] = r.exports]
           /\ testExports' = [testExports EXCEPT ![t] = te]
           /\ output' = [output EXCEPT ![t] = RBIOutput(mangledName(p))]
           /\ exporter' = [exporter EXCEPT ![t] = IF r.exports # <<>> THEN maybeEmitAll(x0, r.exports) ELSE x0]
           /\ pc' = [pc EXCEPT ![t] = IF r.exports # <<>> THEN "prod" ELSE "mid"]
    /\ UNCHANGED <<inputs, packageNamespaces, threadBarrier, mainpc, files, completed, runNo, firstRun>>

\* one iteration of emitLoop, in either pass
EmitLoop(t) ==
    /\ pc[t] \in {"prod", "test"}
    /\ exporter[t].toEmit # <<>>
    /\ exporter' = [exporter EXCEPT ![t] = emitLoopIteration(@)]
    /\ pc' = [pc EXCEPT ![t] = IF exporter'[t].raised THEN "aborted" ELSE @]
    /\ UNCHANGED <<inputs, packageNamespaces, inputq, threadBarrier, mainpc, job, exports, testExports,
                   output, files, runs, completed, runNo, firstRun>>

\* a production stub taken without emptying the buffer
FinishProdKeepBuffer(t) ==
    /\ pc[t] = "prod"
    /\ exporter[t].toEmit = <<>>
    /\ \E pkgOrder \in IterationOrders(DOMAIN exporter[t].referencedPackages),
          rbiOrder \in IterationOrders(exporter[t].referencedRBIs) :
         output' = [output EXCEPT ![t].rbi = <<Header, BlankLine>> \o toString(exporter[t]),
                                  ![t].rbiPackageDependencies = dependencies(pkgOrder, rbiOrder)]
    /\ UNCHANGED exporter
    /\ pc' = [pc EXCEPT ![t] = "mid"]
    /\ UNCHANGED <<inputs, packageNamespaces, inputq, threadBarrier, mainpc, job, exports, testExports,
                   files, runs, completed, runNo, firstRun>>

\* lines 1104-1108: the production stub and its manifest
FinishProd(t) ==
    /\ pc[t] = "prod"
    /\ exporter[t].toEmit = <<>>
    /\ \E pkgOrder \in IterationOrders(DOMAIN exporter[t].referencedPackages),
          rbiOrder \in IterationOrders(exporter[t].referencedRBIs) :
         output' = [output EXCEPT ![t].rbi = <<Header, BlankLine>> \o toString(exporter[t]),
                                  ![t].rbiPackageDependencies = dependencies(pkgOrder, rbiOrder)]
    /\ exporter' = [exporter EXCEPT ![t].out = <<>>]
    /\ pc' = [pc EXCEPT ![t] = "mid"]
    /\ UNCHANGED <<inputs, packageNamespaces, inputq, threadBarrier, mainpc, job, exports, testExports,
                   files, runs, completed, runNo, firstRun>>

\* a test pass that starts from empty dependency accumulators
StartTestFresh(t) ==
    /\ pc[t] = "mid"
    /\ IF testExports[t] # <<>>
       THEN /\ exporter' = [exporter EXCEPT ![t] = maybeEmitAll([@ EXCEPT !.referencedPackages = EmptyMap,
                                                                                 !.referencedRBIs = {}],
                                                                      testExports[t])]
            /\ pc' = [pc EXCEPT ![t] = "test"]
       ELSE /\ pc' = [pc EXCEPT ![t] = "write"]
            /\ UNCHANGED exporter
    /\ UNCHANGED <<inputs, packageNamespaces, inputq, threadBarrier, mainpc, job, exports, testExports,
                   output, files, runs, completed, runNo, firstRun>>

\* lines 1113-1116: the test exports are handed to maybeEmit, or emit() returns
StartTest(t) ==
    /\ pc[t] = "mid"
    /\ IF testExports[t] # <<>>
       THEN /\ exporter' = [exporter EXCEPT ![t] = maybeEmitAll(@, testExports[t])]
            /\ pc' = [pc EXCEPT ![t] = "test"]
       ELSE /\ pc' = [pc EXCEPT ![t] = "write"]
            /\ UNCHANGED exporter
    /\ UNCHANGED <<inputs, packageNamespaces, inputq, threadBarrier, mainpc, job, exports, testExports,
                   output, files, runs, completed, runNo, firstRun>>

\* a test stub taken whatever the test pass rendered
FinishTestAlways(t) ==
    /\ pc[t] = "test"
    /\ exporter[t].toEmit = <<>>
    /\ LET rbiText == toString(exporter[t])
       IN  IF TRUE
           THEN \E pkgOrder \in IterationOrders(DOMAIN exporter[t].referencedPackages),
                   rbiOrder \in IterationOrders(exporter[t].referencedRBIs) :
                  output' = [output EXCEPT ![t].testRBI = <<Header, BlankLine>> \o rbiText,
                                           ![t].testRBIPackageDependencies = dependencies(pkgOrder, rbiOrder)]
           ELSE UNCHANGED output
    /\ exporter' = [exporter EXCEPT ![t].out = <<>>]
    /\ pc' = [pc EXCEPT ![t] = "write"]
    /\ UNCHANGED <<inputs, packageNamespaces, inputq, threadBarrier, mainpc, job, exports, testExports,
                   files, runs, completed, runNo, firstRun>>

\* lines 1120-1128: the test stub and its manifest, only when the test pass rendered text
FinishTest(t) ==
    /\ pc[t] = "test"
    /\ exporter[t].toEmit = <<>>
    /\ LET rbiText == toString(exporter[t])
       IN  IF rbiText # <<>>
           THEN \E pkgOrder \in IterationOrders(DOMAIN exporter[t].referencedPackages),
                   rbiOrder \in IterationOrders(exporter[t].referencedRBIs) :
                  output' = [output EXCEPT ![t].testRBI = <<Header, BlankLine>> \o rbiText,
                                           ![t].testRBIPackageDependencies = dependencies(pkgOrder, rbiOrder)]
           ELSE UNCHANGED output
    /\ exporter' = [exporter EXCEPT ![t].out = <<>>]
    /\ pc' = [pc EXCEPT ![t] = "write"]
    /\ UNCHANGED <<inputs, packageNamespaces, inputq, threadBarrier, mainpc, job, exports, testExports,
                   files, runs, completed, runNo, firstRun>>

FileOps_write(fs, path, content) == MapPut(fs, path, content)

\* a write block that writes all four files whatever the RBIOutput holds
WriteAlways(t) ==
    /\ pc[t] = "write"
    /\ LET o == output[t]
       IN  files' = FileOps_write(FileOps_write(FileOps_write(FileOps_write(files,
                        <<o.baseFilePath, ".rbi">>, o.rbi),
                        <<o.baseFilePath, ".deps.json">>, o.rbiPackageDependencies),
                        <<o.baseFilePath, ".test.rbi">>, o.testRBI),
                        <<o.baseFilePath, ".test.deps.json">>, o.testRBIPackageDependencies)
    /\ completed' = [completed EXCEPT ![job[t]] = @ + 1]
    /\ pc' = [pc EXCEPT ![t] = "pop"]
    /\ UNCHANGED <<inputs, packageNamespaces, inputq, threadBarrier, mainpc, job, exporter, exports,
                   testExports, output, runs, runNo, firstRun>>

\* lines 1196-1206: the artifacts of the returned RBIOutput are written
Write(t) ==
    /\ pc[t] = "write"
    /\ LET o == output[t]
           f1 == IF o.rbi # <<>>
                 THEN FileOps_write(FileOps_write(files, <<o.baseFilePath, ".rbi">>, o.rbi),
                                    <<o.baseFilePath, ".deps.json">>, o.rbiPackageDependencies)
                 ELSE files
           f2 == IF o.testRBI # <<>>
                 THEN FileOps_write(FileOps_write(f1, <<o.baseFilePath, ".test.rbi">>, o.testRBI),
                                    <<o.baseFilePath, ".test.deps.json">>, o.testRBIPackageDependencies)
                 ELSE f1
       IN  files' = f2
    /\ completed' = [completed EXCEPT ![job[t]] = @ + 1]
    /\ pc' = [pc EXCEPT ![t] = "pop"]
    /\ UNCHANGED <<inputs, packageNamespaces, inputq, threadBarrier, mainpc, job, exporter, exports,
                   testExports, output, runs, runNo, firstRun>>

\* try_pop reports the queue drained: the task leaves the loop and decrements the barrier
TryPopDone(t) ==
    /\ pc[t] = "pop"
    /\ inputq = <<>>
    /\ threadBarrier' = threadBarrier - 1
    /\ pc' = [pc EXCEPT ![t] = "done"]
    /\ UNCHANGED <<inputs, packageNamespaces, inputq, mainpc, job, exporter, exports, testExports,
                   output, files, runs, completed, runNo, firstRun>>

Task(t) ==
    \/ TryPopGot(t)
    \/ EmitLoop(t)
    \/ FinishProd(t)
    \/ StartTest(t)
    \/ FinishTest(t)
    \/ Write(t)
    \/ TryPopDone(t)

Next ==
    \/ RunStart
    \/ \E t \in Tasks : Task(t)
    \/ Wait

Spec == Init /\ [][Next]_vars

SpecDriver == InitDriver /\ [][Next]_vars

SpecSig == InitSig /\ [][Next]_vars

SpecDef == InitDef /\ [][Next]_vars

(***************************************************************************)
(* Liveness: the calling thread and every started task keep taking steps   *)
(* (the threads of the pool are scheduled fairly).  A task has a step to   *)
(* take exactly when it is inside the job lambda, so the weak fairness of  *)
(* Task(t) is written out with Running(t) for ENABLED <<Task(t)>>_vars.    *)
(***************************************************************************)
Running(t) == pc[t] \in {"pop", "prod", "mid", "test", "write"}

Fairness ==
    /\ WF_vars(RunStart)
    /\ WF_vars(Wait)
    /\ \A t \in Tasks : []<>(~Running(t)) \/ []<><<Task(t)>>_vars

LiveSpec == InitDriver /\ [][Next]_vars /\ Fairness

(***************************************************************************)
(* Two runs on the same input: after RBIGenerator::run has returned it is  *)
(* entered again with the same symbol table, package database and worker   *)
(* count, writing into an empty output directory; firstRun keeps what the  *)
(* first run wrote.                                                        *)
(***************************************************************************)
InitTwice ==
    /\ gs = GlobalState
    /\ numWorkers \in 0..MaxWorkers
    /\ packages = {"A", "AB", "Q"}
    /\ rawExports = DefaultExports
    /\ rawTestExports = DefaultTestExports
    /\ InitRun

RunAgain ==
    /\ mainpc = "returned"
    /\ runNo = 1
    /\ runNo' = 2
    /\ firstRun' = files
    /\ files' = EmptyMap
    /\ packageNamespaces' = {}
    /\ inputq' = <<>>
    /\ threadBarrier' = 0
    /\ mainpc' = "start"
    /\ pc' = [t \in Tasks |-> "idle"]
    /\ job' = [t \in Tasks |-> NoSym]
    /\ exporter' = [t \in Tasks |-> NoExporter]
    /\ exports' = [t \in Tasks |-> <<>>]
    /\ testExports' = [t \in Tasks |-> <<>>]
    /\ output' = [t \in Tasks |-> RBIOutput(NoSym)]
    /\ runs' = [p \in AllPackages |-> 0]
    /\ completed' = [p \in AllPackages |-> 0]
    /\ UNCHANGED inputs

NextTwice ==
    \/ Next
    \/ RunAgain

SpecTwice == InitTwice /\ [][NextTwice]_vars

(***************************************************************************)
(* Vocabulary of the properties.                                           *)
(***************************************************************************)
\* everything one emit() call has rendered so far: both stubs and the buffer still being filled
allLines(t) == output[t].rbi \o output[t].testRBI \o exporter[t].out

\* the positions at which lines declares symbol s
declarations(lines, s) == {i \in 1..Len(lines) : lines[i].s = s}

\* the namespace roots an exporter knows: its own two and those of every other package
namespaceRoots(x) == (x.pkgNamespaces \cup {x.pkgNamespace, x.pkgTestNamespace}) \ {NoSym}

RECURSIVE firstNamespaceRoot(_, _)
\* the first namespace root on the owner chain of sym, the global root when there is none
firstNamespaceRoot(roots, sym) ==
    IF sym \in {Symbols_root, Symbols_PackageRegistry, NoSym} THEN Symbols_root
    ELSE IF sym \in roots THEN sym
    ELSE firstNamespaceRoot(roots, owner(sym))

\* the symbol belongs to the package of exporter x
ownedBy(x, sym) == firstNamespaceRoot(namespaceRoots(x), sym) \in {x.pkgNamespace, x.pkgTestNamespace} \ {NoSym}

\* the symbol belongs to another known package
ownedByOther(x, sym) ==
    firstNamespaceRoot(namespaceRoots(x), sym) \in x.pkgNamespaces \ {x.pkgNamespace, x.pkgTestNamespace}

(***************************************************************************)
(* C1.  In one generation pass no symbol is rendered twice: at every point *)
(* of a pipeline, each class, module, method, field and type member has at *)
(* most one declaration line in what the emit() call has rendered (the     *)
(* production stub, the test stub and the buffer), whatever the export     *)
(* lists are.                                                              *)
(***************************************************************************)
C1_NoSymbolRenderedTwice ==
    \A t \in Tasks : \A s \in SymbolIds \ {NoSym} : Cardinality(declarations(allLines(t), s)) <= 1

\* a finished pass whose export list named the same class twice, and rendered it once
C1_Witness ==
    \E t \in Tasks :
        /\ pc[t] = "write"
        /\ Len(exports[t]) = 2
        /\ exports[t][1] = exports[t][2]
        /\ Cardinality(declarations(allLines(t), exports[t][1])) = 1
        /\ \E s \in SymbolIds : kind(s) = "Method" /\ declarations(allLines(t), s) # {}

(***************************************************************************)
(* C2.  Everything an exporter ever put on toEmit, and every class whose   *)
(* body it expanded, has the exporter's own namespace or test namespace as *)
(* the first namespace root of its owner chain; a symbol handed to         *)
(* maybeEmit whose first namespace root belongs to another known package   *)
(* is neither queued nor expanded, and that root is a key of               *)
(* referencedPackages.                                                     *)
(***************************************************************************)
C2_ClosureStaysInPackage ==
    \A t \in Tasks :
        /\ \A s \in exporter[t].hQueued \cup exporter[t].hExpanded : ownedBy(exporter[t], s)
        /\ \A s \in exporter[t].hAsked :
              ownedByOther(exporter[t], s) =>
                  /\ s \notin exporter[t].hQueued \cup exporter[t].hExpanded
                  /\ firstNamespaceRoot(namespaceRoots(exporter[t]), s)
                        \in DOMAIN exporter[t].referencedPackages

\* package A expanded A::K and asked for A::B::X, which the nested package AB owns
C2_Witness ==
    \E t \in Tasks :
        /\ job[t] = "A"
        /\ "A::K" \in exporter[t].hExpanded
        /\ "A::B::X" \in exporter[t].hAsked
        /\ "A::B" \in packageNamespaces
        /\ "A::B" \in DOMAIN exporter[t].referencedPackages

\* no symbol is accepted by both exporters
acceptDisjoint(xP, xQ) ==
    \A s \in SymbolIds \ {NoSym} : ~(isInPackage(xP, s, s).ok /\ isInPackage(xQ, s, s).ok)

(***************************************************************************)
(* C3.  Ownership is exclusive: once the namespace set is built, no symbol *)
(* is accepted by isInPackage(s, s) of the exporters of two distinct       *)
(* packages of the database, nested namespaces included.                   *)
(***************************************************************************)
C3_OwnershipExclusive ==
    mainpc # "start" =>
        \A P \in packages : \A Q \in packages \ {P} :
            acceptDisjoint(RBIExporter(P, packageNamespaces), RBIExporter(Q, packageNamespaces))

\* A and the nested AB are both known: A::B::X is AB's and not A's, A::K is A's and not AB's
C3_Witness ==
    /\ mainpc = "wait"
    /\ {"A", "AB"} \subseteq packages
    /\ isInPackage(RBIExporter("AB", packageNamespaces), "A::B::X", "A::B::X").ok
    /\ ~isInPackage(RBIExporter("A", packageNamespaces), "A::B::X", "A::B::X").ok
    /\ isInPackage(RBIExporter("A", packageNamespaces), "A::K", "A::K").ok
    /\ ~isInPackage(RBIExporter("AB", packageNamespaces), "A::K", "A::K").ok

(***************************************************************************)
(* Vocabulary of the properties about the stub text and the manifests.     *)
(***************************************************************************)
Range(seq) == {seq[i] : i \in 1..Len(seq)}

\* the symbols named by the text of the lines
namedIn(lines) == UNION {Range(lines[i].refs) : i \in 1..Len(lines)}

\* the entries of packageRefs in a manifest text
packageRefsOf(manifest) ==
    {manifest[i] : i \in 2..((CHOOSE j \in 1..Len(manifest) : manifest[j] = "], \"rbiRefs\":[") - 1)}
        \ {"\"", ","}

\* every symbol of another known package that the stub names has its package in the manifest
manifestCovers(x, stub, manifest) ==
    \A s \in namedIn(stub) :
        ownedByOther(x, s) => firstNamespaceRoot(namespaceRoots(x), s) \in packageRefsOf(manifest)

\* the symbol lies inside the production namespace of exporter x
insideNamespace(x, sym) ==
    exists(x.pkgNamespace) /\ firstNamespaceRoot(namespaceRoots(x), sym) = x.pkgNamespace

\* the methods of a class and of its singleton class
methodsOf(klass) ==
    {m \in Range(data(klass).members)
           \cup (IF exists(lookupSingletonClass(klass))
                 THEN Range(data(lookupSingletonClass(klass)).members) ELSE {}) :
        kind(m) = "Method"}

RECURSIVE argTypes(_)
argTypes(args) == IF args = <<>> THEN <<>> ELSE <<getResultType(Head(args).type)>> \o argTypes(Tail(args))

\* the symbols the signature of a method names
signatureRefs(m) ==
    IF data(m).hasSig
    THEN Range(showAll(argTypes(data(m).arguments))) \cup Range(show(getResultType(data(m).resultType)))
    ELSE {}

\* superclass link, mixin links, type references in signatures
links(sym) ==
    IF ~isClassOrModule(sym) THEN {}
    ELSE {superClass(sym)} \cup Range(data(sym).mixins) \cup UNION {signatureRefs(m) : m \in methodsOf(sym)}

\* one more step along the links, staying inside the namespace
step(x, set) == set \cup {s \in UNION {links(r) : r \in set} : isClassOrModule(s) /\ insideNamespace(x, s)}

RECURSIVE closure(_, _, _)
\* the least set containing set and closed under step; next is step(x, set)
closure(x, set, next) == IF next = set THEN set ELSE closure(x, next, step(x, next))

\* what is reachable from the resolved export roots along paths inside the namespace
reachable(x, roots) == closure(x, {}, {r \in roots : insideNamespace(x, r)})

(***************************************************************************)
(* C4.  Completeness: when the pipeline of a package has finished, every   *)
(* symbol reachable from a resolved export root by superclass links, mixin *)
(* links and type references in signatures, along a path inside the        *)
(* package's namespace, has exactly one declaration in the output.         *)
(***************************************************************************)
C4_Completeness ==
    \A t \in Tasks :
        pc[t] = "write" =>
            \A s \in reachable(exporter[t], Range(exports[t]) \cup Range(testExports[t])) :
                Cardinality(declarations(output[t].rbi \o output[t].testRBI, s)) = 1

(***************************************************************************)
(* C5.  Closure soundness: for every symbol that the text of a stub names  *)
(* (superclass, include or extend, mixes_in_class_methods, a type in a     *)
(* signature, prop or field), the symbol is the package's own or the       *)
(* namespace of the package owning it is an entry of packageRefs in the    *)
(* manifest produced with that stub.                                       *)
(***************************************************************************)
C5_ClosureSound ==
    \A t \in Tasks :
        pc[t] = "write" =>
            /\ manifestCovers(exporter[t], output[t].rbi, output[t].rbiPackageDependencies)
            /\ manifestCovers(exporter[t], output[t].testRBI, output[t].testRBIPackageDependencies)

(***************************************************************************)
(* C6.  Export partition: no symbol whose owner chain reaches the test     *)
(* namespace of the package has a declaration in the production stub.      *)
(***************************************************************************)
C6_ExportPartition ==
    \A t \in Tasks : \A i \in 1..Len(output[t].rbi) :
        output[t].rbi[i].s # NoSym =>
            firstNamespaceRoot(namespaceRoots(exporter[t]), output[t].rbi[i].s)
                # exporter[t].pkgTestNamespace

(***************************************************************************)
(* C7.  Idempotence: a second run on the same symbol table, package        *)
(* database and export lists leaves exactly the files the first run left:  *)
(* the same stubs and the same manifests, entry order included.            *)
(***************************************************************************)
C7_Idempotent == (runNo = 2 /\ mainpc = "returned") => files = firstRun

(***************************************************************************)
(* C8.  Every package pushed to the queue is popped once and its pipeline  *)
(* is run exactly once, for every number of workers and every              *)
(* interleaving: a package is either still queued and not yet run, or no   *)
(* longer queued and run once; nothing else is ever run; when run returns  *)
(* the queue is empty.                                                     *)
(***************************************************************************)
C8_EachPackageOnce ==
    /\ \A p \in AllPackages \ packages : runs[p] = 0
    /\ mainpc # "start" =>
          \A p \in packages : runs[p] = (IF p \in Range(inputq) THEN 0 ELSE 1)
    /\ mainpc = "returned" => inputq = <<>>

\* three packages were shared between the workers and run has returned
C8_Witness ==
    /\ mainpc = "returned"
    /\ numWorkers = MaxWorkers
    /\ Cardinality(packages) = 3
    /\ \A p \in packages : runs[p] = 1
    /\ \E t1, t2 \in Tasks : t1 # t2 /\ job[t1] # NoSym /\ job[t2] # NoSym

\* the state in which run may return: every task has left its loop and every write is done
allTasksFinished ==
    /\ \A t \in multiplexJob(numWorkers) : pc[t] = "done"
    /\ threadBarrier = 0
    /\ inputq = <<>>
    /\ \A p \in packages : completed[p] = 1

(***************************************************************************)
(* C9.  run returns only after every task has drained the queue and        *)
(* decremented the barrier, with every artifact write done; and run        *)
(* eventually returns, for zero workers as for any other number.           *)
(***************************************************************************)
C9_ReturnsAfterAllTasks == [](mainpc = "returned" => allTasksFinished) /\ <>(mainpc = "returned")

\* run has returned in the case of zero workers, the one task having run on the calling thread
C9_Witness ==
    /\ mainpc = "returned"
    /\ numWorkers = 0
    /\ Cardinality(packages) = 3
    /\ allTasksFinished
    /\ DOMAIN files # {}

\* the content of a file of the output directory, NoFile when it was not written
contentOf(fs, path) == IF path \in DOMAIN fs THEN fs[path] ELSE NoFile

(***************************************************************************)
(* C10.  Scheduling independence: for every package, each of its four      *)
(* output strings is the same in two runs on the same input, whatever the  *)
(* interleaving of the workers and whichever worker took the package.      *)
(***************************************************************************)
C10_SchedulingIndependent ==
    (runNo = 2 /\ mainpc = "returned") =>
        \A p \in packages : \A ext \in {".rbi", ".deps.json", ".test.rbi", ".test.deps.json"} :
            contentOf(files, <<mangledName(p), ext>>) = contentOf(firstRun, <<mangledName(p), ext>>)

\* the file of a package with the given extension is in the output directory
written(p, ext) == <<mangledName(p), ext>> \in DOMAIN files

\* the symbols the declared exports of a package resolve to
resolvedRoots(p) == {s \in {lookupFQN(e) : e \in Range(rawExports[p])} : exists(s)}

\* the production export set of a package: resolved exports outside its test namespace
productionRoots(p) ==
    {s \in resolvedRoots(p) : ~isInTestPackage(RBIExporter(p, packageNamespaces), s)}

\* the test export set: resolved exports inside the test namespace, and the resolved test exports
testRoots(p) ==
    {s \in resolvedRoots(p) : isInTestPackage(RBIExporter(p, packageNamespaces), s)}
        \cup {s \in {lookupFQN(e) : e \in Range(rawTestExports[p])} : exists(s)}

(***************************************************************************)
(* C11.  For every package, the production stub and its manifest are in    *)
(* the output directory together or not at all, and so are the test stub   *)
(* and its manifest; the production files are there only if some declared  *)
(* export resolves to a production symbol, and the test files only if some *)
(* export resolves to a test export.                                       *)
(***************************************************************************)
C11_ArtifactsOnlyForExports ==
    \A p \in AllPackages :
        /\ written(p, ".rbi") <=> written(p, ".deps.json")
        /\ written(p, ".test.rbi") <=> written(p, ".test.deps.json")
        /\ written(p, ".rbi") => productionRoots(p) # {}
        /\ written(p, ".test.rbi") => testRoots(p) # {}

\* package A declared an export that does not resolve and a test export: only its test files exist
C11_Witness ==
    /\ mainpc = "returned"
    /\ rawExports["A"] # <<>>
    /\ productionRoots("A") = {}
    /\ ~written("A", ".rbi") /\ ~written("A", ".deps.json")
    /\ written("A", ".test.rbi") /\ written("A", ".test.deps.json")
    /\ written("Q", ".rbi") /\ ~written("Q", ".test.rbi")

\* the name path resolves to an existing symbol
resolves(e) == exists(lookupFQN(e))

\* a plural delegation text with nothing but separators after the keyword
noReceiver(text) ==
    /\ StartsWith(text, defDelegators)
    /\ \A i \in (Len(defDelegators) + 1)..Len(text) : text[i] \in {" ", "\n", "\t", "(", ")", ","}

\* the methods that come from such a delegation
bareDelegations ==
    {m \in SymbolIds : kind(m) = "Method" /\ data(m).arguments # <<>> /\ noReceiver(data(m).arguments[1].name)}

(***************************************************************************)
(* C12.  An export name path that does not resolve (a missing member, or a *)
(* prefix that is not a class or module) is skipped silently: the export   *)
(* vectors of a pipeline are those of the declared lists without the       *)
(* unresolved entries, every resolved entry is in them, the non-existent   *)
(* symbol is never handed to maybeEmit, and the pipeline raises no error   *)
(* on its account.                                                         *)
(***************************************************************************)
C12_UnresolvedExportSkipped ==
    \A t \in Tasks :
        job[t] # NoSym =>
            LET p == job[t]
                kept == resolveExports(RBIExporter(p, packageNamespaces),
                                       [exports |-> <<>>, testExports |-> <<>>],
                                       SelectSeq(rawExports[p], resolves))
            IN  /\ exports[t] = kept.exports
                /\ testExports[t] = resolveTestExports(kept.testExports, SelectSeq(rawTestExports[p], resolves))
                /\ Range(exports[t]) \cup Range(testExports[t])
                      = {lookupFQN(e) : e \in {f \in Range(rawExports[p]) \cup Range(rawTestExports[p]) :
                                                  resolves(f)}}
                /\ NoSym \notin Range(exports[t]) \cup Range(testExports[t]) \cup exporter[t].hAsked
                /\ exporter[t].raised => \E m \in bareDelegations : owner(m) \in exporter[t].hExpanded

\* package A declared A::Nope, A::C::Z (A::C is a constant, not a class) or both next to A::K, and
\* its pipeline finished with A::K rendered
C12_Witness ==
    \E t \in Tasks :
        /\ job[t] = "A"
        /\ pc[t] = "write"
        /\ Len(rawExports["A"]) = 2
        /\ \E i \in 1..2 : ~resolves(rawExports["A"][i])
        /\ exports[t] = <<"A::K">>
        /\ testExports[t] = resolveTestExports(<<>>, rawTestExports["A"])
        /\ lookupFQN(<< <<"A">>, <<"N","o","p","e">> >>) = NoSym
        /\ lookupFQN(<< <<"A">>, <<"C">>, <<"Z">> >>) = NoSym
        /\ lookupFQN(<< <<"A">>, <<"C">> >>) = "A::C"
        /\ declarations(output[t].rbi, "A::K") # {}

(***************************************************************************)
(* C13.  An internal invariant violation aborts the pipeline: a plural     *)
(* delegation whose text has no receiver token raises before any line for  *)
(* its method is appended, emit(klass) raises without appending anything   *)
(* when the class is rejected by isInPackage or is not in the visited set, *)
(* and a pipeline that raised stops: none of the package's files is ever   *)
(* written.                                                                *)
(***************************************************************************)
C13_ViolationAborts ==
    \A t \in Tasks :
        job[t] # NoSym =>
            /\ (\E m \in bareDelegations : owner(m) \in exporter[t].hExpanded) => exporter[t].raised
            /\ exporter[t].raised =>
                  /\ pc[t] = "aborted"
                  /\ \A ext \in {".rbi", ".deps.json", ".test.rbi", ".test.deps.json"} : ~written(job[t], ext)
                  /\ \A m \in bareDelegations : declarations(allLines(t), m) = {}
            /\ \A klass \in {s \in SymbolIds \ {NoSym} : isClassOrModule(s)} :
                  (~isInPackage(exporter[t], klass, klass).ok \/ klass \notin exporter[t].emittedSymbols) =>
                      /\ emit_ClassOrModuleRef(exporter[t], klass).raised
                      /\ emit_ClassOrModuleRef(exporter[t], klass).out = exporter[t].out

\* the test pass of package A ran into the bare plural delegation of Test::A::R: the production
\* stub was already built, the header of Test::A::R is in the buffer, and nothing was written
C13_Witness ==
    \E t \in Tasks :
        /\ job[t] = "A"
        /\ pc[t] = "aborted"
        /\ "Test::A::R" \in exporter[t].hExpanded
        /\ output[t].rbi # <<>>
        /\ declarations(exporter[t].out, "Test::A::R") # {}
        /\ declarations(exporter[t].out, "Test::A::R#bad") = {}
        /\ DOMAIN files = {}

\* the lines between the header of a class and the end that closes it
bodyOf(lines, klass) ==
    LET hdr == {i \in 1..Len(lines) : lines[i].s = klass /\ lines[i].k \in {"class", "module"}}
    IN  IF hdr = {} THEN <<>>
        ELSE LET i == CHOOSE h \in hdr : TRUE
                 ends == {j \in (i + 1)..Len(lines) : lines[j].ind = 0}
                 j == IF ends = {} THEN Len(lines) + 1 ELSE CHOOSE e \in ends : \A f \in ends : e <= f
             IN  SubSeq(lines, i + 1, j - 1)

\* the members of a class that have the given name
membersNamed(klass, name) == {m \in Range(data(klass).members) : data(m).name = name}

\* the keyword parameters of the initializer of a class
keywordParams(klass) ==
    {a \in UNION {Range(data(m).arguments) : m \in membersNamed(klass, Names_initialize)} :
        "isKeyword" \in a.flags /\ ~isSyntheticBlockArgument(a)}

\* the positions of the property declarations for a name in a class body
propLines(body, name) == {i \in 1..Len(body) : body[i].k \in {"const", "prop"} /\ body[i].n = name}

(***************************************************************************)
(* C14.  Struct recovery: in the body rendered for a class whose           *)
(* superclass is T::Struct, each keyword parameter of the initializer has  *)
(* exactly one property declaration; it is a const exactly when the class  *)
(* has no member named <param>=, and it carries a default exactly when the *)
(* parameter has one; the members <param>, <param>= and @<param> have no   *)
(* declaration of their own anywhere in the output.                        *)
(***************************************************************************)
C14_StructRecovery ==
    \A t \in Tasks : \A klass \in exporter[t].hExpanded :
        (superClass(klass) = Symbols_T_Struct /\ ~exporter[t].raised) =>
            \A a \in keywordParams(klass) :
                /\ Cardinality(propLines(bodyOf(allLines(t), klass), a.name)) = 1
                /\ \A i \in propLines(bodyOf(allLines(t), klass), a.name) :
                      /\ (bodyOf(allLines(t), klass)[i].k = "const")
                            <=> (membersNamed(klass, lookupWithEq(a.name)) = {})
                      /\ bodyOf(allLines(t), klass)[i].hasDefault <=> ("isDefault" \in a.flags)
                /\ \A m \in membersNamed(klass, a.name) \cup membersNamed(klass, lookupWithEq(a.name))
                            \cup membersNamed(klass, lookupWithAt(a.name)) :
                      declarations(allLines(t), m) = {}

\* A::S was rendered: a const for a, a defaulted prop for b, and the type of b was queued
C14_Witness ==
    \E t \in Tasks :
        /\ pc[t] = "write"
        /\ "A::S" \in exporter[t].hExpanded
        /\ Cardinality(keywordParams("A::S")) = 2
        /\ \E i, j \in 1..Len(bodyOf(output[t].rbi, "A::S")) :
              /\ bodyOf(output[t].rbi, "A::S")[i].k = "const"
              /\ bodyOf(output[t].rbi, "A::S")[i].n = <<"a">>
              /\ ~bodyOf(output[t].rbi, "A::S")[i].hasDefault
              /\ bodyOf(output[t].rbi, "A::S")[j].k = "prop"
              /\ bodyOf(output[t].rbi, "A::S")[j].n = <<"b">>
              /\ bodyOf(output[t].rbi, "A::S")[j].hasDefault
        /\ declarations(output[t].rbi, "A::D") # {}

\* the value classes of an enum class, in the declaration order of its members
enumValues(x, klass) ==
    SelectSeq(data(klass).members,
              LAMBDA m : isClassOrModule(m) /\ superClass(m) = klass /\ m \notin x.pkgNamespaces)

\* the last n lines of a body
lastLines(body, n) == SubSeq(body, Len(body) - n + 1, Len(body))

Separators == {" ", "\n", "(", ")", ","}

RECURSIVE dropSeparators(_)
dropSeparators(text) ==
    IF text # <<>> /\ Head(text) \in Separators THEN dropSeparators(Tail(text)) ELSE text

RECURSIVE firstToken(_)
\* the characters up to the first separator
firstToken(text) ==
    IF text = <<>> \/ Head(text) \in Separators THEN <<>> ELSE <<Head(text)>> \o firstToken(Tail(text))

\* the receiver of a plural delegation: the first token after the keyword
receiverOf(text) == firstToken(dropSeparators(SubSeq(text, Len(defDelegators) + 1, Len(text))))

\* the methods that come from a plural delegation with a receiver
pluralDelegations ==
    {m \in SymbolIds : kind(m) = "Method" /\ data(m).arguments # <<>>
                        /\ StartsWith(data(m).arguments[1].name, defDelegators)} \ bareDelegations

(***************************************************************************)
(* C16.  Delegation collapsing: in the body rendered for a class, every    *)
(* target method of a plural delegation has exactly one line, a            *)
(* single-target directive naming that method and the receiver of the      *)
(* delegation (the first token after the keyword); the class body has as   *)
(* many such directives as the class has target methods, and no sig and no *)
(* def is rendered for a target method.                                    *)
(***************************************************************************)
C16_DelegationCollapsed ==
    \A t \in Tasks : \A klass \in exporter[t].hExpanded :
        ~exporter[t].raised =>
            LET targets == {m \in pluralDelegations : m \in Range(data(klass).members)}
                body == bodyOf(allLines(t), klass)
            IN  /\ \A m \in targets :
                      /\ Cardinality(declarations(allLines(t), m)) = 1
                      /\ \A i \in declarations(allLines(t), m) :
                            /\ allLines(t)[i].k = "def_delegator"
                            /\ allLines(t)[i].n = receiverOf(data(m).arguments[1].name)
                      /\ \A i \in 1..Len(body) : body[i].k = "sig" => body[i].of # m
                /\ Cardinality({i \in 1..Len(body) : body[i].k = "def_delegator"}) = Cardinality(targets)

\* A::K was rendered: its plural delegation to :t names del and del2, and each has its directive
C16_Witness ==
    \E t \in Tasks :
        /\ pc[t] = "write"
        /\ "A::K" \in exporter[t].hExpanded
        /\ {m \in pluralDelegations : owner(m) = "A::K"} = {"A::K#del", "A::K#del2"}
        /\ receiverOf(DelegatorsText) = <<":", "t">>
        /\ \E i, j \in 1..Len(bodyOf(allLines(t), "A::K")) :
              /\ i # j
              /\ bodyOf(allLines(t), "A::K")[i].s = "A::K#del"
              /\ bodyOf(allLines(t), "A::K")[j].s = "A::K#del2"
              /\ bodyOf(allLines(t), "A::K")[i].n = <<":", "t">>
              /\ bodyOf(allLines(t), "A::K")[j].n = <<":", "t">>

\* the formal parameters of a method that a sig renders
renderedParams(m) == SelectSeq(data(m).arguments, LAMBDA a : ~isSyntheticBlockArgument(a))

\* the width of "sig {params(<name>: String, y: String, ...).void}" for the parameters of a method
expectedWidth(m) ==
    IF renderedParams(m) = <<>> THEN 10
    ELSE 27 + Len(renderedParams(m)[1].name) + 11 * (Len(renderedParams(m)) - 1)

C17_WitnessWide ==
    \E t \in Tasks : \E i \in 1..Len(allLines(t)) :
        /\ allLines(t)[i].k = "sig"
        /\ Len(allLines(t)[i].oneline) = 81
        /\ Len(allLines(t)[i].typeAndArgNames) = 1
        /\ allLines(t)[i].layout = "multiline"

\* a sig of at most 80 characters with 5 parameters, rendered in the multi-line form
C17_WitnessMany ==
    \E t \in Tasks : \E i \in 1..Len(allLines(t)) :
        /\ allLines(t)[i].k = "sig"
        /\ Len(allLines(t)[i].oneline) <= 80
        /\ Len(allLines(t)[i].typeAndArgNames) = 5
        /\ allLines(t)[i].layout = "multiline"

\* the package a namespace belongs to (its namespace or its test namespace)
packageOf(ns) ==
    CHOOSE p \in AllPackages \cup {NoSym} :
        \/ p # NoSym /\ ns \in {lookupFQN(fullName(p)), getPkgTestNamespace(p)}
        \/ p = NoSym /\ \A q \in AllPackages : ns \notin {lookupFQN(fullName(q)), getPkgTestNamespace(q)}

\* the rejections an exporter charged to a package, in order
rejectionsOf(x, p) == SelectSeq(x.hRejected, LAMBDA r : packageOf(r[1]) = p)

\* the entries of referencedPackages that belong to a package
entriesOf(x, p) == {ns \in DOMAIN x.referencedPackages : packageOf(ns) = p}

(***************************************************************************)
(* C18.  Dependency accumulation: at every point of a pipeline,            *)
(* referencedPackages holds at most one entry per foreign package; a       *)
(* package has an entry exactly when one of its symbols was rejected, and  *)
(* the blaming symbol of the entry is the symbol of the most recent        *)
(* rejection charged to that package.                                      *)
(***************************************************************************)
C18_OneEntryPerPackage ==
    \A t \in Tasks : \A p \in AllPackages :
        LET x == exporter[t]
            rs == rejectionsOf(x, p)
        IN  /\ Cardinality(entriesOf(x, p)) <= 1
            /\ (entriesOf(x, p) # {}) <=> (rs # <<>>)
            /\ \A ns \in entriesOf(x, p) : x.referencedPackages[ns] = rs[Len(rs)][2]

\* a task is inside emitLoop, in either pass
inLoop(t) == pc[t] \in {"prod", "test"}

\* a is an initial part of b
isPrefix(a, b) == Len(a) <= Len(b) /\ SubSeq(b, 1, Len(a)) = a

\* what one step may do to the worklist, the buffer and the stub of task t
loopStep(t) ==
    LET x == exporter[t]
        top == x.toEmit[Len(x.toEmit)]
        rest == SubSeq(x.toEmit, 1, Len(x.toEmit) - 1)
    IN  /\ (inLoop(t) /\ x.toEmit # <<>> /\ exporter'[t] # x) =>
              /\ isPrefix(rest, exporter'[t].toEmit)
              /\ \A i \in DOMAIN exporter'[t].toEmit : exporter'[t].toEmit[i] # top
              /\ exporter'[t].hExpanded \ x.hExpanded \subseteq {top}
        /\ (inLoop(t) /\ pc'[t] \notin {"prod", "test", "aborted"}) =>
              /\ x.toEmit = <<>>
              /\ exporter'[t].toEmit = <<>>
        /\ (inLoop(t) /\ output'[t] # output[t]) =>
              /\ x.toEmit = <<>>
              /\ pc[t] = "prod" => output'[t].rbi = <<Header, BlankLine>> \o toString(x)
              /\ pc[t] = "test" => output'[t].testRBI = <<Header, BlankLine>> \o toString(x)

(***************************************************************************)
(* C19.  emitLoop terminates: a task that is inside the loop leaves it,    *)
(* whatever the symbol graph, cycles included.  An iteration renders the   *)
(* most recently enqueued symbol and leaves the older ones in place, with  *)
(* what it enqueues on top of them; the loop is left with the worklist     *)
(* empty, and the stub text is taken from the buffer only then.            *)
(***************************************************************************)
C19_EmitLoopDrains ==
    /\ [][\A t \in Tasks : loopStep(t)]_vars
    /\ \A t \in Tasks : inLoop(t) ~> ~inLoop(t)

\* a production pass that went round the cycle A::K -> A::M -> A::K has ended with its
\* worklist empty and its stub taken
C19_Witness ==
    \E t \in Tasks :
        /\ pc[t] = "mid"
        /\ {"A::K", "A::M"} \subseteq exporter[t].hExpanded
        /\ "A::M" \in Range(data("A::K").mixins)
        /\ data("A::M#bar").resultType = ClassType("A::K")
        /\ exporter[t].toEmit = <<>>
        /\ Len(output[t].rbi) > 2

\* the field backs a prop of the class, which renders it as a prop line (C14)
propBacked(klass, f) ==
    \E m \in Range(data(klass).members) :
        /\ kind(m) = "Method"
        /\ lookupWithAt(data(m).name) = data(f).name
        /\ isPropMethod(m) \/ superClass(klass) = Symbols_T_Struct

\* the instance fields the member loop of emit(klass) collects
instanceFields(klass) ==
    {f \in Range(data(klass).members) :
        /\ kind(f) = "FieldOrStaticField"
        /\ "isField" \in data(f).flags
        /\ ~shouldSkipMember(f)
        /\ ~propBacked(klass, f)}

\* the lines of a class body that declare a field
fieldDeclarations(body, f) == {i \in DOMAIN body : body[i].k = "field" /\ body[i].s = f}

\* the classes and modules the buffer holds
renderedClasses(x) == {x.out[i].s : i \in {j \in DOMAIN x.out : x.out[j].k \in {"class", "module"}}}

(***************************************************************************)
(* C20.  Every instance field of a class the buffer holds is declared      *)
(* exactly once in the body of that class, inside the body of a method     *)
(* (directly after its def line or after another field declaration),       *)
(* whatever methods the class has.                                         *)
(***************************************************************************)
C20_FieldsDeclaredOnce ==
    \A t \in Tasks :
        inLoop(t) =>
            \A klass \in renderedClasses(exporter[t]) : \A f \in instanceFields(klass) :
                LET body == bodyOf(exporter[t].out, klass)
                IN  /\ Cardinality(fieldDeclarations(body, f)) = 1
                    /\ \A i \in fieldDeclarations(body, f) : i > 1 /\ body[i - 1].k \in {"def", "field"}

\* the owner chain of sym reaches the global root without meeting a package namespace
unpackaged(x, sym) == firstNamespaceRoot(namespaceRoots(x), sym) = Symbols_root

\* the hand-written stub files of the symbol table that are not part of the payload
LegacyStubs == {"legacy.rbi", "legacy2.rbi"}

\* how often an entry occurs in a manifest text
occurrences(text, entry) == Cardinality({i \in DOMAIN text : text[i] = entry})

(***************************************************************************)
(* C21.  A symbol handed to maybeEmit whose owner chain reaches the global *)
(* root without meeting a package namespace is never marked visited and    *)
(* never enqueued, and its file is in referencedRBIs exactly when the file *)
(* is a legacy stub outside the payload.  Every entry of referencedRBIs is *)
(* the file of such a symbol (a packaged symbol adds none), and a manifest *)
(* lists each file at most once.                                           *)
(***************************************************************************)
C21_UnpackagedRejected ==
    \A t \in Tasks :
        LET x == exporter[t]
            asked == {s \in x.hAsked : unpackaged(x, s)}
        IN  /\ \A s \in asked :
                  /\ s \notin x.emittedSymbols
                  /\ s \notin x.hQueued
                  /\ s \notin Range(x.toEmit)
                  /\ (locFile(s) \in x.referencedRBIs) <=> (locFile(s) \in LegacyStubs)
            /\ x.referencedRBIs \subseteq {locFile(s) : s \in asked}
            /\ \A f \in x.referencedRBIs :
                  /\ occurrences(output[t].rbiPackageDependencies, f) <= 1
                  /\ occurrences(output[t].testRBIPackageDependencies, f) <= 1

\* a production pass was asked about a class of a legacy stub, which its manifest lists
\* once, and about a class of the payload, which it does not list
C21_Witness ==
    \E t \in Tasks :
        /\ pc[t] = "mid"
        /\ {"Legacy::L", "String"} \subseteq exporter[t].hAsked
        /\ unpackaged(exporter[t], "Legacy::L") /\ unpackaged(exporter[t], "String")
        /\ locFile("String") = "payload.rbi"
        /\ exporter[t].referencedRBIs = {"legacy.rbi", "legacy2.rbi"}
        /\ occurrences(output[t].rbiPackageDependencies, "legacy.rbi") = 1
        /\ occurrences(output[t].rbiPackageDependencies, "payload.rbi") = 0

\* the width of "def <name>(y, y, ...)" for a public instance method with plain parameters y
expectedDefWidth(m) ==
    4 + Len(data(m).name)
    + (IF renderedParams(m) = <<>> THEN 0 ELSE 2 + 3 * Len(renderedParams(m)) - 2)

\* the def lines of everything task t has rendered
defLines(t) == SelectSeq(allLines(t), LAMBDA l : l.k = "def")

C22_WitnessNarrow ==
    \E t \in Tasks : \E i \in 1..Len(defLines(t)) :
        /\ defLines(t)[i].s = "A::K#foo"
        /\ defLines(t)[i].width = 79
        /\ Len(defLines(t)[i].prettyArgs) = 2
        /\ defLines(t)[i].layout = "oneline"

\* a def of 80 characters without parameters, rendered on one line
C22_WitnessBare ==
    \E t \in Tasks : \E i \in 1..Len(defLines(t)) :
        /\ defLines(t)[i].s = "A::K#foo"
        /\ defLines(t)[i].width = 80
        /\ Len(defLines(t)[i].prettyArgs) = 0
        /\ defLines(t)[i].layout = "oneline"

\* the symbols a text declares
declaredIn(lines) == {lines[i].s : i \in DOMAIN lines} \ {NoSym}

\* what the test pass of task t has rendered so far: the test stub once taken, the buffer before
testText(t) == output[t].testRBI \o (IF pc[t] = "test" THEN exporter[t].out ELSE <<>>)

(***************************************************************************)
(* C23.  Within one pipeline no symbol is declared both in the production  *)
(* stub and in what the test pass renders: whatever was enqueued stays in  *)
(* emittedSymbols, and so do the classes, modules and methods of the       *)
(* production stub after it is taken; a test export already declared in    *)
(* the production stub is not declared again, and the buffer is empty      *)
(* between the two passes, so the test stub starts from no production      *)
(* text.                                                                   *)
(***************************************************************************)
C23_StubsDisjoint ==
    \A t \in Tasks :
        /\ declaredIn(output[t].rbi) \cap declaredIn(testText(t)) = {}
        /\ exporter[t].hQueued \subseteq exporter[t].emittedSymbols
        /\ pc[t] \in {"mid", "test", "write"} =>
              \A i \in DOMAIN output[t].rbi :
                  output[t].rbi[i].k \in {"class", "module", "def"}
                  => output[t].rbi[i].s \in exporter[t].emittedSymbols
        /\ pc[t] = "mid" => exporter[t].out = <<>>
        /\ output[t].testRBI # <<>> =>
              /\ SubSeq(output[t].testRBI, 1, 2) = <<Header, BlankLine>>
              /\ Len(output[t].testRBI) > 2

\* a finished pipeline with both stubs, one of whose test exports is declared in the
\* production stub and not in the test stub
C23_Witness ==
    \E t \in Tasks :
        /\ pc[t] = "write"
        /\ Len(output[t].rbi) > 2
        /\ Len(output[t].testRBI) > 2
        /\ \E s \in Range(testExports[t]) :
              /\ s \in declaredIn(output[t].rbi)
              /\ s \notin declaredIn(output[t].testRBI)

\* the entries a manifest text lists under rbiRefs
rbiRefsOf(manifest) ==
    {manifest[i] : i \in ((CHOOSE j \in 1..Len(manifest) : manifest[j] = "], \"rbiRefs\":[") + 1)..(Len(manifest) - 1)}
        \ {"\"", ","}

\* the accumulators of task t do not lose an entry in a step inside one pipeline
accumulatorsGrow(t) ==
    pc[t] # "pop" =>
        /\ DOMAIN exporter[t].referencedPackages \subseteq DOMAIN exporter'[t].referencedPackages
        /\ exporter[t].referencedRBIs \subseteq exporter'[t].referencedRBIs

\* everything the production manifest lists is listed by the test manifest
manifestsNested(prod, test) ==
    (prod # <<>> /\ test # <<>>) =>
        /\ packageRefsOf(prod) \subseteq packageRefsOf(test)
        /\ rbiRefsOf(prod) \subseteq rbiRefsOf(test)

(***************************************************************************)
(* C24.  Within one pipeline the dependency accumulators only grow: no     *)
(* step between the construction of the exporter and the write of the      *)
(* artifacts removes a key of referencedPackages or a file of              *)
(* referencedRBIs.  When both manifests are produced, every packageRefs    *)
(* and rbiRefs entry of the production manifest is an entry of the test    *)
(* manifest, in the output of the pipeline and in the files written.       *)
(***************************************************************************)
C24_AccumulatorsKept ==
    /\ [][\A t \in Tasks : accumulatorsGrow(t)]_vars
    /\ [](\A t \in Tasks :
            manifestsNested(output[t].rbiPackageDependencies, output[t].testRBIPackageDependencies))
    /\ [](\A p \in AllPackages :
            (written(p, ".deps.json") /\ written(p, ".test.deps.json")) =>
                manifestsNested(files[<<mangledName(p), ".deps.json">>],
                                files[<<mangledName(p), ".test.deps.json">>]))

\* a finished pipeline whose test manifest lists a package and a file of the production manifest
\* that nothing in the test stub refers to
C24_Witness ==
    \E t \in Tasks :
        /\ pc[t] = "write"
        /\ output[t].rbiPackageDependencies # <<>>
        /\ output[t].testRBIPackageDependencies # <<>>
        /\ \E e \in packageRefsOf(output[t].rbiPackageDependencies) :
              /\ e \in packageRefsOf(output[t].testRBIPackageDependencies)
              /\ \A s \in namedIn(output[t].testRBI) :
                    firstNamespaceRoot(namespaceRoots(exporter[t]), s) # e
        /\ \E f \in rbiRefsOf(output[t].rbiPackageDependencies) :
              /\ f \in rbiRefsOf(output[t].testRBIPackageDependencies)
              /\ \A s \in namedIn(output[t].testRBI) : locFile(s) # f

\* the test exports of a package that its test pass cannot render: symbols outside the package,
\* and symbols the production stub already declares
spentTestRoots(p) ==
    {s \in testRoots(p) :
        \/ ~ownedBy(RBIExporter(p, packageNamespaces), s)
        \/ written(p, ".rbi") /\ s \in declaredIn(files[<<mangledName(p), ".rbi">>])}

(***************************************************************************)
(* C25.  For a package whose pipeline has run to its end: the production   *)
(* stub and manifest are written exactly when some declared export         *)
(* resolves to a symbol outside the test namespace, whatever was rendered  *)
(* (the stub may hold the header alone); the test stub and manifest are    *)
(* written only with text after the header, so a package whose resolved    *)
(* test exports were all rejected or already declared in the production    *)
(* stub has neither.  A task about to write holds a production stub        *)
(* exactly when its production export vector is not empty.                 *)
(***************************************************************************)
C25_PairsGatedDifferently ==
    /\ \A p \in AllPackages :
          completed[p] >= 1 =>
              /\ written(p, ".rbi") <=> productionRoots(p) # {}
              /\ written(p, ".deps.json") <=> productionRoots(p) # {}
              /\ written(p, ".rbi") => Len(files[<<mangledName(p), ".rbi">>]) >= 2
              /\ written(p, ".test.rbi") => Len(files[<<mangledName(p), ".test.rbi">>]) > 2
              /\ written(p, ".test.deps.json") => written(p, ".test.rbi")
              /\ (testRoots(p) # {} /\ spentTestRoots(p) = testRoots(p)) =>
                    ~written(p, ".test.rbi") /\ ~written(p, ".test.deps.json")
    /\ \A t \in Tasks :
          pc[t] = "write" =>
              /\ (output[t].rbi # <<>>) <=> (exports[t] # <<>>)
              /\ output[t].testRBI # <<>> => Len(output[t].testRBI) > 2

\* package A exported only a class of package Q, as export and as test export: its production
\* stub is the header alone, with a manifest, and it has no test stub and no test manifest
C25_Witness ==
    /\ completed["A"] >= 1
    /\ productionRoots("A") = {"Q::Base"}
    /\ testRoots("A") = {"Q::Base"}
    /\ written("A", ".rbi") /\ written("A", ".deps.json")
    /\ files[<<mangledName("A"), ".rbi">>] = <<Header, BlankLine>>
    /\ ~written("A", ".test.rbi") /\ ~written("A", ".test.deps.json")

\* package A has a test export that its production stub already declares, and no test stub
C25_WitnessRendered ==
    /\ completed["A"] >= 1
    /\ written("A", ".rbi")
    /\ testRoots("A") # {}
    /\ testRoots("A") \subseteq declaredIn(files[<<mangledName("A"), ".rbi">>])
    /\ ~written("A", ".test.rbi") /\ ~written("A", ".test.deps.json")

====
